---- MODULE Spec2Model ----
(***************************************************************************)
(* Model of plugins/janus_lua_extra.c: the recorded-media playback engine  *)
(* of the Janus Lua plugin.                                                *)
(*                                                                         *)
(*   - the RTP continuity rewriter      janus_rtp_header_update2           *)
(*   - the MJR container parser         janus_play_get_frames              *)
(*   - the control surface              janus_lua_method_startplaying,     *)
(*                                      janus_lua_method_stopplaying       *)
(*   - the playout worker               janus_play_playout_thread          *)
(*                                                                         *)
(* Three specifications share the module:                                  *)
(*   Spec     the control surface, the mutexes, the refcounts and the      *)
(*            playout workers of a small session table, with FairSpec its  *)
(*            fair version;                                                *)
(*   SpecRtp  one session's continuity context fed by successive playouts. *)
(*                                                                         *)
(* 32-bit quantities are pairs <<high 16 bits, low 16 bits>> so that the   *)
(* arithmetic modulo 2^32 of the C code is kept exactly.                   *)
(***************************************************************************)
EXTENDS Integers, Sequences, FiniteSets, TLC

(***************************************************************************)
(* Unsigned arithmetic of the C types                                      *)
(***************************************************************************)

\* uint16_t wraps at 2^16
W16 == 65536

\* half of a 16-bit range: the top half of a uint32_t is what modular
\* comparison reads as "behind"
H16 == 32768

U32Add(a, b) ==
    LET s == a[2] + b[2]
    IN  << (a[1] + b[1] + (s \div W16)) % W16, s % W16 >>

U32Sub(a, b) ==
    LET d == a[2] - b[2]
    IN  << (a[1] - b[1] - (IF d < 0 THEN 1 ELSE 0)) % W16, d % W16 >>

U32Lt(a, b) == a[1] < b[1] \/ (a[1] = b[1] /\ a[2] < b[2])

\* (guint32)n of a non-negative gint64 n
U32OfInt(n) == << (n \div W16) % W16, n % W16 >>

\* the value of a uint32_t below 2^31, as an integer
IntOfU32(a) == a[1] * W16 + a[2]

U32Zero == << 0, 0 >>

(***************************************************************************)
(* The RTP continuity rewriter: janus_rtp_header_update2                   *)
(*                                                                         *)
(* A context is a record of the janus_rtp_switching_context fields the     *)
(* function touches; a header is [ssrc, timestamp, seq_number, type].      *)
(* Timestamps are 32-bit pairs, sequence numbers 0..65535, wall times      *)
(* microseconds.                                                           *)
(***************************************************************************)

\* the "fix timestamp for playback" bump of the seq_reset branch
PlaybackTsBump == 2000

\* the video clock and the two audio clocks, in kHz
VideoKhz == 90

AudioKhz == 48

AudioKhzNarrow == 8

\* payload types 0, 8, 9 (G.711/G.722) run at 8 kHz
AudioKhzOf(type) == IF type = 0 \/ type = 8 \/ type = 9 THEN AudioKhzNarrow ELSE AudioKhz

\* mutant: the clamp to one tick is left out
TimeDiffTicksNoClamp(time_diff, khz) == (time_diff * khz) \div 1000

\* time_diff = (time_diff*khz)/1000; if(time_diff == 0) time_diff = 1;
TimeDiffTicks(time_diff, khz) ==
    LET t == (time_diff * khz) \div 1000
    IN  IF t = 0 THEN 1 ELSE t

\* the context of a freshly created session: every field zero
ZeroContext ==
    [ a_last_ssrc |-> 0, a_last_ts |-> U32Zero, a_base_ts |-> U32Zero,
      a_base_ts_prev |-> U32Zero, a_prev_ts |-> U32Zero,
      a_last_seq |-> 0, a_prev_seq |-> 0, a_base_seq |-> 0, a_base_seq_prev |-> 0,
      a_seq_reset |-> FALSE, a_new_ssrc |-> FALSE, a_last_time |-> 0,
      v_last_ssrc |-> 0, v_last_ts |-> U32Zero, v_base_ts |-> U32Zero,
      v_base_ts_prev |-> U32Zero, v_prev_ts |-> U32Zero,
      v_last_seq |-> 0, v_prev_seq |-> 0, v_base_seq |-> 0, v_base_seq_prev |-> 0,
      v_seq_reset |-> FALSE, v_new_ssrc |-> FALSE, v_last_time |-> 0 ]

\* mutant: an SSRC change that does not rebase the sequence numbers
VideoSsrcChangedKeepSeq(context, header, now) ==
    IF header.ssrc # context.v_last_ssrc
    THEN [context EXCEPT !.v_last_ssrc = header.ssrc,
                         !.v_base_ts_prev = context.v_last_ts,
                         !.v_base_ts = header.timestamp,
                         !.v_new_ssrc = TRUE]
    ELSE context

\* if(ssrc != context->v_last_ssrc) { ... }
VideoSsrcChanged(context, header, now) ==
    IF header.ssrc # context.v_last_ssrc
    THEN LET c1 == [context EXCEPT !.v_last_ssrc = header.ssrc,
                                   !.v_base_ts_prev = context.v_last_ts,
                                   !.v_base_ts = header.timestamp,
                                   !.v_base_seq_prev = context.v_last_seq,
                                   !.v_base_seq = header.seq_number]
             c2 == IF c1.v_last_time > 0
                   THEN LET time_diff == TimeDiffTicks(now - c1.v_last_time, VideoKhz)
                        IN  [c1 EXCEPT !.v_base_ts_prev = U32Add(@, U32OfInt(time_diff)),
                                       !.v_last_ts = U32Add(@, U32OfInt(time_diff))]
                   ELSE c1
         IN  [c2 EXCEPT !.v_new_ssrc = TRUE]
    ELSE context

\* if(context->v_seq_reset) { ... }
VideoSeqReset(context, header) ==
    IF context.v_seq_reset
    THEN [context EXCEPT !.v_seq_reset = FALSE,
                         !.v_base_seq_prev = context.v_last_seq,
                         !.v_base_seq = header.seq_number,
                         !.v_base_ts_prev = U32Add(context.v_last_ts, U32OfInt(PlaybackTsBump))]
    ELSE context

\* Compute a coherent timestamp and sequence number (video)
VideoCompute(context, header, now) ==
    [context EXCEPT
        !.v_prev_ts = context.v_last_ts,
        !.v_last_ts = U32Add(U32Sub(header.timestamp, context.v_base_ts),
                             context.v_base_ts_prev),
        !.v_prev_seq = context.v_last_seq,
        !.v_last_seq = ((header.seq_number - context.v_base_seq)
                         + context.v_base_seq_prev + 1) % W16,
        !.v_last_time = now]

\* if(ssrc != context->a_last_ssrc) { ... }
AudioSsrcChanged(context, header, now) ==
    IF header.ssrc # context.a_last_ssrc
    THEN LET c1 == [context EXCEPT !.a_last_ssrc = header.ssrc,
                                   !.a_base_ts_prev = context.a_last_ts,
                                   !.a_base_ts = header.timestamp,
                                   !.a_base_seq_prev = context.a_last_seq,
                                   !.a_base_seq = header.seq_number]
             c2 == IF c1.a_last_time > 0
                   THEN LET time_diff == TimeDiffTicks(now - c1.a_last_time,
                                                       AudioKhzOf(header.type))
                        IN  [c1 EXCEPT !.a_base_ts_prev = U32Add(@, U32OfInt(time_diff)),
                                       !.a_prev_ts = U32Add(@, U32OfInt(time_diff)),
                                       !.a_last_ts = U32Add(@, U32OfInt(time_diff))]
                   ELSE c1
         IN  [c2 EXCEPT !.a_new_ssrc = TRUE]
    ELSE context

\* mutant: a sequence reset that keeps the old base_seq_prev
AudioSeqResetKeepBase(context, header) ==
    IF context.a_seq_reset
    THEN [context EXCEPT !.a_seq_reset = FALSE,
                         !.a_base_seq = header.seq_number,
                         !.v_base_ts_prev = U32Add(context.v_last_ts, U32OfInt(PlaybackTsBump))]
    ELSE context

\* if(context->a_seq_reset) { ... }: the timestamp bump is written to the
\* video field v_base_ts_prev, from v_last_ts, as the source does
AudioSeqReset(context, header) ==
    IF context.a_seq_reset
    THEN [context EXCEPT !.a_seq_reset = FALSE,
                         !.a_base_seq_prev = context.a_last_seq,
                         !.a_base_seq = header.seq_number,
                         !.v_base_ts_prev = U32Add(context.v_last_ts, U32OfInt(PlaybackTsBump))]
    ELSE context

\* Compute a coherent timestamp and sequence number (audio)
AudioCompute(context, header, now) ==
    [context EXCEPT
        !.a_prev_ts = context.a_last_ts,
        !.a_last_ts = U32Add(U32Sub(header.timestamp, context.a_base_ts),
                             context.a_base_ts_prev),
        !.a_prev_seq = context.a_last_seq,
        !.a_last_seq = ((header.seq_number - context.a_base_seq)
                         + context.a_base_seq_prev + 1) % W16,
        !.a_last_time = now]

\* The whole function: the context after the call and the header as rewritten.
\* The step argument is ignored by the source and is not modelled.
janus_rtp_header_update2(context, header, video, now) ==
    LET Changed == IF video THEN VideoSsrcChanged(context, header, now)
                   ELSE AudioSsrcChanged(context, header, now)
        Reset(c) == IF video THEN VideoSeqReset(c, header) ELSE AudioSeqReset(c, header)
        Compute(c) == IF video THEN VideoCompute(c, header, now)
                      ELSE AudioCompute(c, header, now)
        Result(c) ==
            [ context |-> c,
              header  |-> [header EXCEPT
                             !.timestamp = IF video THEN c.v_last_ts ELSE c.a_last_ts,
                             !.seq_number = IF video THEN c.v_last_seq ELSE c.a_last_seq] ]
    IN  \* the three blocks in turn, each on the value the one before left
        CHOOSE r \in { Result(c3) : c3 \in { Compute(c2) : c2 \in { Reset(c1) :
                           c1 \in { Changed } } } } : TRUE

(***************************************************************************)
(* The MJR container parser: janus_play_get_frames                         *)
(*                                                                         *)
(* A file is a sequence of records [tag, len, kind, json, ssrc, type,      *)
(* seq, ts]: the 8-byte tag, the 2-byte length, and of the payload the     *)
(* bytes the parser reads: its first byte (kind), whether it is a valid    *)
(* info header (json), and the RTP fields.  NoFile is a path fopen fails   *)
(* on.  A 64-bit descriptor timestamp is [hi, lo]: hi counts 2^32.         *)
(***************************************************************************)

NoFile ==
    << [ tag |-> "", len |-> 0, kind |-> "nofile", json |-> "no",
         ssrc |-> 0, type |-> 0, seq |-> 0, ts |-> << 0, 0 >>, cut |-> 0 ] >>

\* prebuffer[0] and prebuffer[1] of a record's tag
TagByte0(tag) == IF tag = "MEETECHO" \/ tag = "MJR00001" THEN "M" ELSE "X"

TagByte1(tag) == IF tag = "MEETECHO" THEN "E" ELSE IF tag = "MJR00001" THEN "J" ELSE "X"

\* bytes 4..7 of a tag read as a big-endian 32-bit number: what the 16-byte
\* header read of pass 1 takes for rtp->timestamp when it starts on a tag
\* ("ECHO" = 0x4543484F, "0001" = 0x30303031)
TagBytes4To7(tag) ==
    IF tag = "MEETECHO" THEN << 17731, 18511 >>
    ELSE IF tag = "MJR00001" THEN << 12336, 12337 >>
    ELSE << 22616, 22616 >>

\* 1000*1000 and 2*1000*1000*1000 as 32-bit pairs
OneMillion32 == << 15, 16960 >>

TwoBillion32 == << 30517, 37888 >>

\* the minimum framed length of an RTP record, and the legacy header's length
MinRtpLen == 12

LegacyHeaderLen == 5

\* a sequence difference beyond which an equal-timestamp pair counts as wrapped
SeqWrapGap == 10000

\* lines 361-377: first_ts, last_ts and reset after one more timestamp
Pass1Timestamp(st, timestamp) ==
    LET st1 ==
          IF st.last_ts = U32Zero
          THEN [st EXCEPT !.first_ts = IF U32Lt(OneMillion32, timestamp)
                                       THEN U32Sub(timestamp, OneMillion32)
                                       ELSE timestamp]
          ELSE IF U32Lt(timestamp, st.last_ts)
               THEN IF U32Lt(TwoBillion32, U32Sub(st.last_ts, timestamp))
                    THEN [st EXCEPT !.reset = timestamp]
                    ELSE st
               ELSE IF U32Lt(timestamp, st.reset)
                    THEN [st EXCEPT !.reset = timestamp]
                    ELSE st
    IN  [st1 EXCEPT !.last_ts = timestamp]

\* the tag's 8 bytes and the length's 2
TagLen == 8

RecordHeaderLen == 10

\* the bytes of a record that are in the file: all of them, but for a last
\* record that the end of the file cuts short by rec.cut bytes
RecordBytes(rec) == RecordHeaderLen + rec.len - rec.cut

\* lines 236-380: one iteration of the pass-1 loop on record rec; following is
\* the 32-bit number at bytes 4..7 after the record's payload (the next tag's).
\* A record cut inside its tag fails the 8-byte read (line 240).  A frame cut
\* inside its payload, behind the first 8 bytes of the RTP header, is read as
\* a whole one: the result of the 16-byte read is not looked at.
Pass1Record(st, rec, following) ==
    IF RecordBytes(rec) < TagLen \/ TagByte0(rec.tag) # "M" THEN [st EXCEPT !.failed = TRUE]
    ELSE IF TagByte1(rec.tag) = "E"
    THEN IF rec.len = LegacyHeaderLen /\ ~st.parsed_header
         THEN IF rec.kind = "v" \/ rec.kind = "a"
              THEN [st EXCEPT !.parsed_header = TRUE]
              ELSE [st EXCEPT !.parsed_header = TRUE, !.failed = TRUE]
         ELSE IF rec.len < MinRtpLen THEN st
         ELSE Pass1Timestamp(st, rec.ts)
    ELSE IF TagByte1(rec.tag) = "J"
    THEN IF rec.len > 0 /\ ~st.parsed_header
         THEN IF rec.json # "ok"
              THEN [st EXCEPT !.failed = TRUE]
              \* the info header was read: the 16-byte read starts on the next tag
              ELSE Pass1Timestamp([st EXCEPT !.parsed_header = TRUE], following)
         \* not read: the 16-byte read starts on this record's payload
         ELSE Pass1Timestamp(st, rec.ts)
    ELSE [st EXCEPT !.failed = TRUE]

RECURSIVE Pass1From(_, _, _)
Pass1From(recs, i, st) ==
    IF i > Len(recs) \/ st.failed THEN st
    ELSE Pass1From(recs, i + 1,
                   Pass1Record(st, recs[i],
                               IF i < Len(recs) THEN TagBytes4To7(recs[i + 1].tag)
                               ELSE recs[i].ts))

Pass1(recs) ==
    Pass1From(recs, 1, [ parsed_header |-> FALSE, failed |-> FALSE,
                         first_ts |-> U32Zero, last_ts |-> U32Zero, reset |-> U32Zero ])

\* comparison and difference of 64-bit descriptor timestamps
Ts64Lt(a, b) == a.hi < b.hi \/ (a.hi = b.hi /\ U32Lt(a.lo, b.lo))

Ts64Diff(a, b) ==
    ((a.hi - b.hi) * W16 + (a.lo[1] - b.lo[1])) * W16 + (a.lo[2] - b.lo[2])

\* lines 413-427: the 64-bit timestamp of a frame
FrameTs(timestamp, first_ts, reset) ==
    IF reset = U32Zero THEN [ hi |-> 0, lo |-> timestamp ]
    ELSE IF U32Lt(first_ts, timestamp) THEN [ hi |-> 0, lo |-> timestamp ]
    ELSE [ hi |-> 1, lo |-> timestamp ]

Abs(n) == IF n < 0 THEN -n ELSE n

\* the walk's test without the sequence rules for equal timestamps
InsertAfterByTsOnly(tmp, p) == Ts64Lt(tmp.ts, p.ts)

\* lines 441-485: p goes right after tmp
InsertAfter(tmp, p) ==
    \/ Ts64Lt(tmp.ts, p.ts)
    \/ /\ tmp.ts = p.ts
       /\ \/ tmp.seq < p.seq /\ Abs(tmp.seq - p.seq) < SeqWrapGap
          \/ tmp.seq > p.seq /\ Abs(tmp.seq - p.seq) > SeqWrapGap

\* lines 432-496: the walk from the tail; 0 when it reaches the start
RECURSIVE InsertPosition(_, _, _)
InsertPosition(list, p, i) ==
    IF i = 0 THEN 0
    ELSE IF InsertAfter(list[i], p) THEN i
    ELSE InsertPosition(list, p, i - 1)

InsertFrame(list, p) ==
    LET i == InsertPosition(list, p, Len(list))
    IN  SubSeq(list, 1, i) \o << p >> \o SubSeq(list, i + 1, Len(list))

\* lines 384-500: the pass-2 loop from record i at byte offset; no read of
\* this pass is checked for its length (bytes < 0 at line 403 is never true)
RECURSIVE Pass2From(_, _, _, _, _)
Pass2From(recs, i, offset, scan, list) ==
    IF i > Len(recs) THEN list
    ELSE LET rec == recs[i]
             at  == offset + RecordHeaderLen
         IN  IF TagByte1(rec.tag) = "J" \/ rec.len < MinRtpLen
             THEN Pass2From(recs, i + 1, at + rec.len, scan, list)
             ELSE Pass2From(recs, i + 1, at + rec.len, scan,
                    InsertFrame(list,
                        [ seq |-> rec.seq,
                          ts |-> FrameTs(rec.ts, scan.first_ts, scan.reset),
                          len |-> rec.len, offset |-> at, rec |-> i ]))

\* The same lines with the descriptors' pointers.  The descriptors are
\* numbered as g_malloc0 hands them out, 0 is NULL; list and last are the
\* parser's locals of those names.
NoLinks == [ nodes |-> << >>, list |-> 0, last |-> 0 ]

\* lines 428-431: the new descriptor, linked to nothing
NewNode(p) == [ seq |-> p.seq, ts |-> p.ts, rec |-> p.rec, next |-> 0, prev |-> 0 ]

\* lines 440-489: the walk from last along prev; 0 when it reaches the start
RECURSIVE WalkBack(_, _, _)
WalkBack(nodes, tmp, p) ==
    IF tmp = 0 THEN 0
    ELSE IF InsertAfter(nodes[tmp], p) THEN tmp
    ELSE WalkBack(nodes, nodes[tmp].prev, p)

\* the linking without the successor's prev
LinkAfterOneWay(h, tmp, p) ==
    LET id == Len(h.nodes) + 1
        nxt == h.nodes[tmp].next
        n1 == Append(h.nodes, [NewNode(p) EXCEPT !.next = nxt, !.prev = tmp])
    IN  [ nodes |-> [n1 EXCEPT ![tmp].next = id], list |-> h.list,
          last |-> IF nxt # 0 THEN h.last ELSE id ]

\* lines 444-454 (and 460-470, 474-484): p is linked in behind tmp
LinkAfter(h, tmp, p) ==
    LET id == Len(h.nodes) + 1
        nxt == h.nodes[tmp].next
        n1 == Append(h.nodes, [NewNode(p) EXCEPT !.next = nxt, !.prev = tmp])
        n2 == IF nxt # 0 THEN [n1 EXCEPT ![nxt].prev = id] ELSE n1
    IN  [ nodes |-> [n2 EXCEPT ![tmp].next = id], list |-> h.list,
          last |-> IF nxt # 0 THEN h.last ELSE id ]

\* lines 490-495: p becomes the head
LinkFirst(h, p) ==
    LET id == Len(h.nodes) + 1
        n1 == Append(h.nodes, [NewNode(p) EXCEPT !.next = h.list])
    IN  [ nodes |-> [n1 EXCEPT ![h.list].prev = id], list |-> id, last |-> h.last ]

\* lines 432-496: one descriptor goes into the list
LinkFrame(h, p) ==
    IF h.list = 0
    THEN [ nodes |-> << NewNode(p) >>, list |-> 1, last |-> 1 ]
    ELSE LET tmp == WalkBack(h.nodes, h.last, p)
         IN  IF tmp # 0 THEN LinkAfter(h, tmp, p) ELSE LinkFirst(h, p)

\* lines 384-500: the pass-2 loop, keeping what list and last pointed to
\* after each insertion
RECURSIVE Pass2LinksFrom(_, _, _, _)
Pass2LinksFrom(recs, i, scan, steps) ==
    IF i > Len(recs) THEN steps
    ELSE LET rec == recs[i]
             h == IF steps = << >> THEN NoLinks ELSE steps[Len(steps)]
         IN  IF TagByte1(rec.tag) = "J" \/ rec.len < MinRtpLen
             THEN Pass2LinksFrom(recs, i + 1, scan, steps)
             ELSE Pass2LinksFrom(recs, i + 1, scan,
                    Append(steps,
                        LinkFrame(h, [ seq |-> rec.seq,
                                       ts |-> FrameTs(rec.ts, scan.first_ts, scan.reset),
                                       rec |-> i ])))

Pass2Links(file) ==
    IF file = NoFile \/ Pass1(file).failed THEN << >>
    ELSE Pass2LinksFrom(file, 1, Pass1(file), << >>)

\* The whole function: the ordered index of a file, << >> for NULL.  Each
\* descriptor also names the record it was made from (rec), which the worker
\* uses to read the packet back at [offset, offset + len).
janus_play_get_frames(file) ==
    IF file = NoFile THEN << >>
    ELSE LET scan == Pass1(file)
         IN  IF scan.failed THEN << >>
             ELSE Pass2From(file, 1, 0, scan, << >>)

(***************************************************************************)
(* Recordings on disk                                                      *)
(***************************************************************************)

\* an RTP frame record: tag "MEETECHO", length, RTP packet
Frame(ssrc, type, seq, ts) ==
    [ tag |-> "MEETECHO", len |-> 20, kind |-> "r", json |-> "no",
      ssrc |-> ssrc, type |-> type, seq |-> seq, ts |-> ts, cut |-> 0 ]

\* the legacy preamble: tag "MEETECHO", length 5, "audio" or "video"
LegacyHeader(kind) ==
    [ tag |-> "MEETECHO", len |-> LegacyHeaderLen, kind |-> kind, json |-> "no",
      ssrc |-> 0, type |-> 0, seq |-> 0, ts |-> U32Zero, cut |-> 0 ]

\* the modern info header: tag "MJR00001", length, JSON text
InfoHeader(json) ==
    [ tag |-> "MJR00001", len |-> 40, kind |-> "{", json |-> json,
      ssrc |-> 0, type |-> 0, seq |-> 0, ts |-> << 8762, 8801 >>, cut |-> 0 ]

\* a record under a tag that is neither a frame's nor a header's
JunkRecord ==
    [ tag |-> "RIFFWAVE", len |-> 20, kind |-> "r", json |-> "no",
      ssrc |-> 0, type |-> 0, seq |-> 0, ts |-> U32Zero, cut |-> 0 ]

\* legacy audio, Opus, three frames 20 ms apart (timestamps 1000, 1960, 2920)
AudioOpus ==
    << LegacyHeader("a"),
       Frame(7, 111, 10, << 0, 1000 >>),
       Frame(7, 111, 11, << 0, 1960 >>),
       Frame(7, 111, 12, << 0, 2920 >> ) >>

\* the same stream recorded with packet 11 lost and the last two written
\* out of order
AudioLossy ==
    << LegacyHeader("a"),
       Frame(7, 111, 13, << 0, 3880 >>),
       Frame(7, 111, 10, << 0, 1000 >>),
       Frame(7, 111, 12, << 0, 2920 >> ) >>

\* modern audio, G.711 (payload type 0, 8 kHz), sequence numbers wrapping
AudioPcmu ==
    << InfoHeader("ok"),
       Frame(9, 0, 65535, << 0, 160 >>),
       Frame(9, 0, 0, << 0, 320 >> ) >>

\* modern video: two packets of one frame, then a frame 50 ms later
VideoVp8 ==
    << InfoHeader("ok"),
       Frame(5, 100, 100, << 0, 9000 >>),
       Frame(5, 100, 101, << 0, 9000 >>),
       Frame(5, 100, 102, << 0, 13500 >> ) >>

\* modern video whose source switches SSRC after the first frame
VideoSwitch ==
    << InfoHeader("ok"),
       Frame(5, 100, 100, << 0, 9000 >>),
       Frame(6, 100, 7, << 3, 500 >> ) >>

\* the recordings the control surface is called with: two audio packets 20 ms
\* apart, written out of order; a video frame of two packets and another of
\* two packets 20 ms later
AudioPair ==
    << LegacyHeader("a"),
       Frame(7, 111, 11, << 0, 1960 >>),
       Frame(7, 111, 10, << 0, 1000 >> ) >>

VideoPair ==
    << InfoHeader("ok"),
       Frame(5, 100, 100, << 0, 9000 >>),
       Frame(5, 100, 101, << 0, 9000 >>),
       Frame(5, 100, 102, << 0, 10800 >>),
       Frame(5, 100, 103, << 0, 10800 >> ) >>

\* a file whose info header is not JSON, and one with a foreign tag
BadInfo == << InfoHeader("bad"), Frame(5, 100, 100, << 0, 9000 >>) >>

BadTag == << JunkRecord >>

\* the packet the worker reads back for a descriptor of file
PacketOf(file, d) ==
    [ ssrc |-> file[d.rec].ssrc, timestamp |-> file[d.rec].ts,
      seq_number |-> file[d.rec].seq, type |-> file[d.rec].type ]

RECURSIVE PacketsOf(_, _)
PacketsOf(file, list) ==
    IF list = << >> THEN << >>
    ELSE << PacketOf(file, Head(list)) >> \o PacketsOf(file, Tail(list))

(***************************************************************************)
(* Spec: the control surface and the playout workers                       *)
(*                                                                         *)
(* State: the session table (lua_ids) with each session's flags, refcount, *)
(* index heads, recording pointer and continuity context; the two kinds of *)
(* mutex; the heap of recording handles and of index chains; the control   *)
(* calls in progress, one per embedder thread; the playout workers, each   *)
(* with its position, cursors, reference times and its own event/relay     *)
(* trace; the wall clock in microseconds.                                  *)
(***************************************************************************)

VARIABLES sessions, lua_sessions_mutex, rec_mutex, recordings, chains,
          calls, ncalls, workers, now, ticks

mainVars == << sessions, lua_sessions_mutex, rec_mutex, recordings, chains,
               calls, ncalls, workers, now, ticks >>

\* the variables of SpecRtp, which Spec leaves alone
VARIABLES rctx, rnow, rticks, rplayouts, raudio, rvideo, rprev, rlast

rtpVars == << rctx, rnow, rticks, rplayouts, raudio, rvideo, rprev, rlast >>

\* the variables of SpecParse: a file of the recordings folder, what is known
\* of how it was written, where the parser stands, the index it returned, the
\* parser's first_ts, last_ts and reset when its first pass ended, and the
\* linked list of its second pass after each insertion
VARIABLES pfile, pkind, ppc, pchain, pscan, plinks

parseVars == << pfile, pkind, ppc, pchain, pscan, plinks >>

\* the variables of SpecPace: a direction's reference time, what it was before
\* the last packet was sent, that packet's pacing interval, the packets sent
VARIABLES tbefore, tprev, tdue, tsent

paceVars == << tbefore, tprev, tdue, tsent >>

allVars == << mainVars, rtpVars, parseVars, paceVars >>

\* return codes
JANUS_LUA_EXTRA_PLAY_OK == 0

JANUS_LUA_EXTRA_PLAY_ERROR_WRONG_NUMBER_ARUMENTS == 1000

JANUS_LUA_EXTRA_PLAY_ERROR_SESSION_NOT_FOUND == 1001

JANUS_LUA_EXTRA_PLAY_ERROR_INVALID_RECORDING == 1002

JANUS_LUA_EXTRA_PLAY_ERROR_THREAD_START == 1003

\* the sessions of the table, an id the table does not hold, the embedder's
\* threads
SessionIds == { 1 }

UnknownId == 2

Callers == { "t1", "t2" }

\* what startPlaying is called with: the argument count, read first, and the
\* audio and video file names, read when the files are parsed
StartArgs == { 4, 5, 6 }

StartFiles(arg_number) ==
    IF arg_number = 4 THEN { << "audio.mjr", "" >>, << "junk.mjr", "" >> }
    ELSE { << "audio.mjr", "video.mjr" >>, << "missing.mjr", "video.mjr" >>,
           << "junk.mjr", "badinfo.mjr" >> }

\* the files of the recordings folder
FileContents(name) ==
    CASE name = "audio.mjr" -> AudioPair
      [] name = "video.mjr" -> VideoPair
      [] name = "junk.mjr" -> BadTag
      [] name = "badinfo.mjr" -> BadInfo
      [] OTHER -> NoFile

FileNames == { "audio.mjr", "video.mjr", "missing.mjr", "junk.mjr", "badinfo.mjr", "" }

\* what janus_play_get_frames makes of each file
ParsedFiles == [ name \in FileNames |-> janus_play_get_frames(FileContents(name)) ]

\* bound: how many control calls the embedder makes
MaxCalls == 2

\* bound: how many times the environment moves the clock (the worker's own
\* sleeps move it besides)
MaxTicks == 1

TickSteps == { 7000 }

\* usleep(5000) and the pacing slack of the same size
SleepUs == 5000

PacingSlackUs == 5000

MillionUs == 1000000

\* the wall clock when the model starts: 20 ms before a full second
NowStart == 980000

Free == "free"

NULL == 0

\* a control call: where it stands, its arguments, what it returned
NoArgs == << 0, "", "" >>

IdleCall == [ pc |-> "idle", op |-> "none", id |-> 0, args |-> NoArgs,
              ret |-> -1, spawned |-> 0, rec |-> 0 ]

NewSession ==
    [ destroyed |-> FALSE, active |-> FALSE, recorder |-> FALSE, ref |-> 1,
      recording |-> NULL, aframes |-> NULL, vframes |-> NULL, rtpctx |-> ZeroContext ]

InitMainVars ==
    /\ sessions = [ s \in SessionIds |-> NewSession ]
    /\ lua_sessions_mutex = Free
    /\ rec_mutex = [ s \in SessionIds |-> Free ]
    /\ recordings = << >>
    /\ chains = << >>
    /\ calls = [ c \in Callers |-> IdleCall ]
    /\ ncalls = 0
    /\ workers = << >>
    /\ now = NowStart
    /\ ticks = 0

\* g_hash_table_lookup(lua_ids, id) finds a session that is not destroyed
Found(id) == id \in SessionIds /\ ~sessions[id].destroyed

\* a decrease that frees the handle whatever the count
RecordingUnrefEarly(recs, h) ==
    [recs EXCEPT ![h].ref = @ - 1, ![h].freed = TRUE]

\* janus_refcount_decrease(&recording->ref): the handle is freed at zero
RecordingUnref(recs, h) ==
    [recs EXCEPT ![h].ref = @ - 1, ![h].freed = (recs[h].ref - 1 = 0)]

(***************************************************************************)
(* janus_lua_method_startplaying                                           *)
(***************************************************************************)

\* lines 53-58, 65: the argument count is checked, then the table is locked
StartPlayingEnter(c, id, arg_number) ==
    /\ calls[c].pc \in { "idle", "returned" }
    /\ ncalls < MaxCalls
    /\ ncalls' = ncalls + 1
    /\ IF arg_number # 4 /\ arg_number # 6
       THEN calls' = [calls EXCEPT ![c] =
                [ IdleCall EXCEPT !.pc = "returned", !.op = "start",
                                  !.ret = JANUS_LUA_EXTRA_PLAY_ERROR_WRONG_NUMBER_ARUMENTS ]]
       ELSE calls' = [calls EXCEPT ![c] =
                [ IdleCall EXCEPT !.pc = "sp_lock_sessions", !.op = "start", !.id = id,
                                  !.args = << arg_number, "", "" >> ]]
    /\ UNCHANGED << rtpVars, parseVars, paceVars, sessions, lua_sessions_mutex, rec_mutex,
                   recordings, chains, workers, now, ticks >>

\* line 65: janus_mutex_lock(&lua_sessions_mutex)
LockSessions(c) ==
    /\ calls[c].pc \in { "sp_lock_sessions", "tp_lock_sessions" }
    /\ lua_sessions_mutex = Free
    /\ lua_sessions_mutex' = c
    /\ calls' = [calls EXCEPT ![c].pc =
                    IF calls[c].op = "start" THEN "sp_lookup" ELSE "tp_lookup"]
    /\ UNCHANGED << rtpVars, parseVars, paceVars, sessions, rec_mutex, recordings, chains, ncalls,
                   workers, now, ticks >>

\* lines 66-72 (and 153-159): the lookup; on failure the table is unlocked and
\* the call returns, otherwise the session is referenced
Lookup(c) ==
    /\ calls[c].pc \in { "sp_lookup", "tp_lookup" }
    /\ IF ~Found(calls[c].id)
       THEN /\ lua_sessions_mutex' = Free
            /\ calls' = [calls EXCEPT ![c].pc = "returned",
                            ![c].ret = JANUS_LUA_EXTRA_PLAY_ERROR_SESSION_NOT_FOUND]
            /\ UNCHANGED sessions
       ELSE /\ sessions' = [sessions EXCEPT ![calls[c].id].ref = @ + 1]
            /\ calls' = [calls EXCEPT ![c].pc =
                            IF calls[c].op = "start" THEN "sp_lock_rec" ELSE "tp_lock_rec"]
            /\ UNCHANGED lua_sessions_mutex
    /\ UNCHANGED << rtpVars, parseVars, paceVars, rec_mutex, recordings, chains, ncalls, workers,
                   now, ticks >>

\* a rec_mutex that does not keep a second caller out
LockRecUnowned(c) ==
    /\ calls[c].pc \in { "sp_lock_rec", "tp_lock_rec" }
    /\ rec_mutex' = [rec_mutex EXCEPT ![calls[c].id] = c]
    /\ calls' = [calls EXCEPT ![c].pc =
                    IF calls[c].op = "start" THEN "sp_unlock_sessions" ELSE "tp_unlock_sessions"]
    /\ UNCHANGED << rtpVars, parseVars, paceVars, sessions, lua_sessions_mutex, recordings,
                   chains, ncalls, workers, now, ticks >>

\* line 73 (and 160): janus_mutex_lock(&session->rec_mutex), taken while the
\* table is still locked
LockRec(c) ==
    /\ calls[c].pc \in { "sp_lock_rec", "tp_lock_rec" }
    /\ rec_mutex[calls[c].id] = Free
    /\ rec_mutex' = [rec_mutex EXCEPT ![calls[c].id] = c]
    /\ calls' = [calls EXCEPT ![c].pc =
                    IF calls[c].op = "start" THEN "sp_unlock_sessions" ELSE "tp_unlock_sessions"]
    /\ UNCHANGED << rtpVars, parseVars, paceVars, sessions, lua_sessions_mutex, recordings, chains,
                   ncalls, workers, now, ticks >>

\* line 74 (and 161): janus_mutex_unlock(&lua_sessions_mutex)
UnlockSessions(c) ==
    /\ calls[c].pc \in { "sp_unlock_sessions", "tp_unlock_sessions" }
    /\ lua_sessions_mutex' = Free
    /\ calls' = [calls EXCEPT ![c].pc =
                    IF calls[c].op = "start" THEN "sp_body" ELSE "tp_body"]
    /\ UNCHANGED << rtpVars, parseVars, paceVars, sessions, rec_mutex, recordings, chains, ncalls,
                   workers, now, ticks >>

\* a parsed index goes to the heap; NULL for an empty one
ChainsWith(heap, frames, file) ==
    IF frames = << >> THEN heap
    ELSE Append(heap, [ frames |-> frames, file |-> file, freed |-> FALSE ])

\* line 100: neither index head is set
NoIndexEither(ahead, vhead) == ahead = NULL \/ vhead = NULL

NoIndex(ahead, vhead) == ahead = NULL /\ vhead = NULL

\* lines 76-118: the recording handle is created, the provided files are
\* parsed, and with no index at all the call returns INVALID_RECORDING; with
\* four arguments the video head is left as it was
StartPlayingBody(c, files) ==
    LET id == calls[c].id
        args == << calls[c].args[1], files[1], files[2] >>
        h == Len(recordings) + 1
        aframes == ParsedFiles[args[2]]
        vframes == ParsedFiles[args[3]]
        heap1 == ChainsWith(chains, aframes, args[2])
        ahead == IF aframes = << >> THEN NULL ELSE Len(heap1)
        heap2 == IF args[1] = 6 THEN ChainsWith(heap1, vframes, args[3]) ELSE heap1
        vhead == IF args[1] # 6 THEN sessions[id].vframes
                 ELSE IF vframes = << >> THEN NULL ELSE Len(heap2)
        invalid == NoIndex(ahead, vhead)
    IN  /\ calls[c].pc = "sp_body"
        /\ chains' = heap2
        /\ recordings' = Append(recordings,
                [ ref |-> IF invalid THEN 1 ELSE 2, freed |-> FALSE, stop_playing |-> FALSE,
                  destroyed |-> FALSE, arc |-> ahead # NULL,
                  vrc |-> args[1] = 6 /\ vhead # NULL ])
        /\ sessions' = [sessions EXCEPT ![id].recording = h, ![id].aframes = ahead,
                           ![id].vframes = vhead,
                           ![id].active = IF invalid THEN @ ELSE TRUE,
                           ![id].ref = IF invalid THEN @ ELSE @ + 1]
        /\ calls' = [calls EXCEPT ![c].rec = h, ![c].args = args,
                        ![c].pc = IF invalid THEN "returned" ELSE "sp_spawn",
                        ![c].ret = IF invalid
                                   THEN JANUS_LUA_EXTRA_PLAY_ERROR_INVALID_RECORDING ELSE @]
        /\ UNCHANGED << rtpVars, parseVars, paceVars, lua_sessions_mutex, rec_mutex, ncalls, workers,
                       now, ticks >>

NoTimeval == [ tv_sec |-> 0, tv_usec |-> 0 ]

\* what a worker finds when it begins: the session destroyed, a recorder,
\* without any index
NotBegun == [ destroyed |-> FALSE, recorder |-> FALSE, empty |-> FALSE ]

NewWorker(id) ==
    [ session |-> id, pc |-> "entry", exit |-> "none", rec |-> NULL,
      achain |-> NULL, vchain |-> NULL, audio |-> 0, video |-> 0,
      abefore |-> NoTimeval, vbefore |-> NoTimeval, asent |-> FALSE, vsent |-> FALSE,
      ts |-> [ hi |-> 0, lo |-> U32Zero ], first |-> FALSE, trace |-> << >>,
      began |-> NotBegun ]

\* lines 119-130: g_thread_try_new either starts the worker or fails, and then
\* the two references are given back and the call returns THREAD_START
StartPlayingSpawn(c, error) ==
    LET id == calls[c].id
    IN  /\ calls[c].pc = "sp_spawn"
        /\ IF error
           THEN /\ sessions' = [sessions EXCEPT ![id].ref = @ - 1]
                /\ recordings' = RecordingUnref(recordings, calls[c].rec)
                /\ calls' = [calls EXCEPT ![c].pc = "returned",
                                ![c].ret = JANUS_LUA_EXTRA_PLAY_ERROR_THREAD_START]
                /\ UNCHANGED workers
           ELSE /\ workers' = Append(workers, NewWorker(id))
                /\ calls' = [calls EXCEPT ![c].pc = "sp_finish",
                                ![c].spawned = Len(workers) + 1]
                /\ UNCHANGED << sessions, recordings >>
        /\ UNCHANGED << rtpVars, parseVars, paceVars, lua_sessions_mutex, rec_mutex, chains, ncalls,
                       now, ticks >>

\* lines 132-136: the caller's two references are given back, OK is returned
StartPlayingFinish(c) ==
    /\ calls[c].pc = "sp_finish"
    /\ sessions' = [sessions EXCEPT ![calls[c].id].ref = @ - 1]
    /\ recordings' = RecordingUnref(recordings, calls[c].rec)
    /\ calls' = [calls EXCEPT ![c].pc = "returned", ![c].ret = JANUS_LUA_EXTRA_PLAY_OK]
    /\ UNCHANGED << rtpVars, parseVars, paceVars, lua_sessions_mutex, rec_mutex, chains, ncalls,
                   workers, now, ticks >>

(***************************************************************************)
(* janus_lua_method_stopplaying                                            *)
(***************************************************************************)

StopArgs == { 1, 2 }

\* lines 143-152: the argument count is checked, then the table is locked
StopPlayingEnter(c, id, arg_number) ==
    /\ calls[c].pc \in { "idle", "returned" }
    /\ ncalls < MaxCalls
    /\ ncalls' = ncalls + 1
    /\ IF arg_number # 1
       THEN calls' = [calls EXCEPT ![c] =
                [ IdleCall EXCEPT !.pc = "returned", !.op = "stop",
                                  !.ret = JANUS_LUA_EXTRA_PLAY_ERROR_WRONG_NUMBER_ARUMENTS ]]
       ELSE calls' = [calls EXCEPT ![c] =
                [ IdleCall EXCEPT !.pc = "tp_lock_sessions", !.op = "stop", !.id = id ]]
    /\ UNCHANGED << rtpVars, parseVars, paceVars, sessions, lua_sessions_mutex, rec_mutex,
                   recordings, chains, workers, now, ticks >>

\* lines 163-169: the stop flag of the session's recording, if there is one,
\* is set; the session's reference is given back and OK is returned
StopPlayingBody(c) ==
    LET id == calls[c].id
        h == sessions[id].recording
    IN  /\ calls[c].pc = "tp_body"
        /\ recordings' = IF h # NULL THEN [recordings EXCEPT ![h].stop_playing = TRUE]
                         ELSE recordings
        /\ sessions' = [sessions EXCEPT ![id].ref = @ - 1]
        /\ calls' = [calls EXCEPT ![c].pc = "returned", ![c].rec = h,
                        ![c].ret = JANUS_LUA_EXTRA_PLAY_OK]
        /\ UNCHANGED << rtpVars, parseVars, paceVars, lua_sessions_mutex, rec_mutex, chains, ncalls,
                       workers, now, ticks >>

(***************************************************************************)
(* janus_play_playout_thread                                               *)
(***************************************************************************)

\* lines 604-605 of the worker
SetSeqReset(context) == [context EXCEPT !.a_seq_reset = TRUE, !.v_seq_reset = TRUE]

\* gettimeofday: the wall clock as seconds and microseconds
Timeval(t) == [ tv_sec |-> t \div MillionUs, tv_usec |-> t % MillionUs ]

TimevalUs(tv) == tv.tv_sec * MillionUs + tv.tv_usec

\* lines 644-650 and 711-717: the microseconds passed since the reference time
Passed(tv, before) ==
    LET d_s == tv.tv_sec - before.tv_sec
        d_us == tv.tv_usec - before.tv_usec
    IN  IF d_us < 0 THEN (d_s - 1) * MillionUs + (d_us + MillionUs)
        ELSE d_s * MillionUs + d_us

\* the interval left in milliseconds
TsDiffMillis(frames, i, khz) == Ts64Diff(frames[i].ts, frames[i - 1].ts) \div khz

\* lines 640-641 and 707-708: the pacing interval to the previous descriptor
TsDiffUs(frames, i, khz) == (Ts64Diff(frames[i].ts, frames[i - 1].ts) * 1000) \div khz

\* lines 655-663 and 722-730: the reference time is moved on by the interval
AdvanceBefore(before, ts_diff) ==
    LET usec == before.tv_usec + (ts_diff % MillionUs)
        carried == IF usec > MillionUs
                   THEN [ tv_sec |-> before.tv_sec + 1, tv_usec |-> usec - MillionUs ]
                   ELSE [ tv_sec |-> before.tv_sec, tv_usec |-> usec ]
    IN  IF ts_diff \div MillionUs > 0
        THEN [ tv_sec |-> carried.tv_sec + (ts_diff \div MillionUs),
               tv_usec |-> carried.tv_usec - (ts_diff \div MillionUs) ]
        ELSE carried

\* audio = audio->next, video = video->next (lines 637, 678, 699, 747)
NextSkipping(i) == i + 2

NextOf(i) == i + 1

\* a cursor is NULL without a chain or past the chain's last descriptor
AtEnd(chain, i) == chain = NULL \/ i > Len(chains[chain].frames)

PlayEvent(name) == << "event", name >>

RelayRtp(video, i) == << "rtp", video, i >>

\* lines 621-632 (and 665-676, 687-698, 735-746): the packet of a descriptor is
\* read from the file, rewritten and handed to relay_rtp
Relayed(w, chain, i, video) ==
    LET r == janus_rtp_header_update2(sessions[workers[w].session].rtpctx,
                 PacketOf(FileContents(chains[chain].file), chains[chain].frames[i]), video, now)
    IN  [ rtpctx |-> r.context, trace |-> Append(workers[w].trace, RelayRtp(video, i)) ]

\* lines 517-608: the worker refuses to start on a session without recording,
\* on a recorder, without indexes or when a file cannot be reopened; else it
\* takes the reference times, arms both sequence resets and emits "start"
WorkerEntry(w, afile, vfile) ==
    LET id == workers[w].session
        session == sessions[id]
        rec == session.recording
        began == [ destroyed |-> session.destroyed, recorder |-> session.recorder,
                   empty |-> session.aframes = NULL /\ session.vframes = NULL ]
        refused == \/ session.recorder
                   \/ session.aframes = NULL /\ session.vframes = NULL
                   \/ session.aframes # NULL /\ ~afile
                   \/ session.vframes # NULL /\ ~vfile
    IN  /\ w \in DOMAIN workers /\ workers[w].pc = "entry"
        /\ IF rec = NULL
           THEN /\ sessions' = [sessions EXCEPT ![id].ref = @ - 1]
                /\ workers' = [workers EXCEPT ![w].pc = "exited", ![w].exit = "refused",
                                  ![w].began = began]
                /\ UNCHANGED recordings
           ELSE IF refused
           THEN /\ sessions' = [sessions EXCEPT ![id].ref = @ - 1]
                /\ recordings' = RecordingUnref(recordings, rec)
                /\ workers' = [workers EXCEPT ![w].pc = "exited", ![w].exit = "refused",
                                  ![w].rec = rec, ![w].began = began]
           ELSE /\ sessions' = [sessions EXCEPT ![id].rtpctx = SetSeqReset(@)]
                /\ workers' = [workers EXCEPT ![w].pc = "loop", ![w].rec = rec,
                                  ![w].began = began,
                                  ![w].achain = session.aframes, ![w].audio = 1,
                                  ![w].vchain = session.vframes, ![w].video = 1,
                                  ![w].abefore = Timeval(now), ![w].vbefore = Timeval(now),
                                  ![w].trace = << PlayEvent("start") >>]
                /\ UNCHANGED recordings
        /\ UNCHANGED << rtpVars, parseVars, paceVars, lua_sessions_mutex, rec_mutex, chains, calls,
                       ncalls, now, ticks >>

\* the loop without its usleep(5000)
WorkerLoopNoSleep(w) ==
    LET me == workers[w]
        session == sessions[me.session]
        goon == /\ ~session.destroyed
                /\ session.active
                /\ ~recordings[me.rec].destroyed
                /\ (~AtEnd(me.achain, me.audio) \/ ~AtEnd(me.vchain, me.video))
                /\ ~recordings[session.recording].stop_playing
    IN  /\ w \in DOMAIN workers /\ workers[w].pc = "loop"
        /\ workers' = [workers EXCEPT ![w].pc = IF goon THEN "audio" ELSE "leave",
                          ![w].asent = IF goon THEN FALSE ELSE @,
                          ![w].vsent = IF goon THEN FALSE ELSE @]
        /\ UNCHANGED << rtpVars, parseVars, paceVars, sessions, lua_sessions_mutex, rec_mutex,
                       recordings, chains, calls, ncalls, now, ticks >>

\* lines 610-617: the loop condition, then the 5 ms sleep after an iteration
\* that sent nothing
WorkerLoop(w) ==
    LET me == workers[w]
        session == sessions[me.session]
        goon == /\ ~session.destroyed
                /\ session.active
                /\ ~recordings[me.rec].destroyed
                /\ (~AtEnd(me.achain, me.audio) \/ ~AtEnd(me.vchain, me.video))
                /\ ~recordings[session.recording].stop_playing
    IN  /\ w \in DOMAIN workers /\ workers[w].pc = "loop"
        /\ IF goon
           THEN /\ now' = IF ~me.asent /\ ~me.vsent THEN now + SleepUs ELSE now
                /\ workers' = [workers EXCEPT ![w].pc = "audio", ![w].asent = FALSE,
                                  ![w].vsent = FALSE]
           ELSE /\ workers' = [workers EXCEPT ![w].pc = "leave"]
                /\ UNCHANGED now
        /\ UNCHANGED << rtpVars, parseVars, paceVars, sessions, lua_sessions_mutex, rec_mutex,
                       recordings, chains, calls, ncalls, ticks >>

\* lines 618-681: the audio step of an iteration
WorkerAudio(w) ==
    LET me == workers[w]
        frames == chains[me.achain].frames
        ts_diff == TsDiffUs(frames, me.audio, AudioKhz)
        sent == Relayed(w, me.achain, me.audio, FALSE)
    IN  /\ w \in DOMAIN workers /\ workers[w].pc = "audio"
        /\ IF AtEnd(me.achain, me.audio)
           THEN /\ workers' = [workers EXCEPT ![w].pc = "video"]
                /\ UNCHANGED sessions
           ELSE IF me.achain = sessions[me.session].aframes /\ me.audio = 1
           THEN /\ sessions' = [sessions EXCEPT ![me.session].rtpctx = sent.rtpctx]
                /\ workers' = [workers EXCEPT ![w].pc = "video", ![w].trace = sent.trace,
                                  ![w].abefore = Timeval(now), ![w].asent = TRUE,
                                  ![w].audio = NextOf(@)]
           ELSE IF Passed(Timeval(now), me.abefore) < ts_diff - PacingSlackUs
           THEN /\ workers' = [workers EXCEPT ![w].pc = "video", ![w].asent = FALSE]
                /\ UNCHANGED sessions
           ELSE /\ sessions' = [sessions EXCEPT ![me.session].rtpctx = sent.rtpctx]
                /\ workers' = [workers EXCEPT ![w].pc = "video", ![w].trace = sent.trace,
                                  ![w].abefore = AdvanceBefore(@, ts_diff),
                                  ![w].asent = TRUE, ![w].audio = NextOf(@)]
        /\ UNCHANGED << rtpVars, parseVars, paceVars, lua_sessions_mutex, rec_mutex, recordings,
                       chains, calls, ncalls, now, ticks >>

\* lines 682-685, 705-732: the video step up to the burst: the first frame goes
\* at once, a later one when its interval has passed
WorkerVideo(w) ==
    LET me == workers[w]
        frames == chains[me.vchain].frames
        ts_diff == TsDiffUs(frames, me.video, VideoKhz)
    IN  /\ w \in DOMAIN workers /\ workers[w].pc = "video"
        /\ IF AtEnd(me.vchain, me.video)
           THEN workers' = [workers EXCEPT ![w].pc = "loop"]
           ELSE IF me.vchain = sessions[me.session].vframes /\ me.video = 1
           THEN workers' = [workers EXCEPT ![w].pc = "burst", ![w].first = TRUE,
                               ![w].ts = frames[me.video].ts]
           ELSE IF Passed(Timeval(now), me.vbefore) < ts_diff - PacingSlackUs
           THEN workers' = [workers EXCEPT ![w].pc = "loop", ![w].vsent = FALSE]
           ELSE workers' = [workers EXCEPT ![w].pc = "burst", ![w].first = FALSE,
                               ![w].vbefore = AdvanceBefore(@, ts_diff),
                               ![w].ts = frames[me.video].ts]
        /\ UNCHANGED << rtpVars, parseVars, paceVars, sessions, lua_sessions_mutex, rec_mutex,
                       recordings, chains, calls, ncalls, now, ticks >>

\* the burst ending after one descriptor
WorkerBurstOne(w) ==
    LET me == workers[w]
        sent == Relayed(w, me.vchain, me.video, TRUE)
    IN  /\ w \in DOMAIN workers /\ workers[w].pc = "burst"
        /\ sessions' = [sessions EXCEPT ![me.session].rtpctx = sent.rtpctx]
        /\ workers' = [workers EXCEPT ![w].trace = sent.trace, ![w].video = NextOf(@),
                          ![w].pc = "loop", ![w].vsent = TRUE,
                          ![w].vbefore = IF me.first THEN Timeval(now) ELSE @]
        /\ UNCHANGED << rtpVars, parseVars, paceVars, lua_sessions_mutex, rec_mutex, recordings,
                       chains, calls, ncalls, now, ticks >>

\* lines 686-704 and 733-749: one round of the burst that sends every video
\* descriptor of the same timestamp; after the first frame the reference time
\* is taken anew
WorkerBurst(w) ==
    LET me == workers[w]
        frames == chains[me.vchain].frames
        sent == Relayed(w, me.vchain, me.video, TRUE)
    IN  /\ w \in DOMAIN workers /\ workers[w].pc = "burst"
        /\ IF ~AtEnd(me.vchain, me.video) /\ frames[me.video].ts = me.ts
           THEN /\ sessions' = [sessions EXCEPT ![me.session].rtpctx = sent.rtpctx]
                /\ workers' = [workers EXCEPT ![w].trace = sent.trace, ![w].video = NextOf(@)]
           ELSE /\ workers' = [workers EXCEPT ![w].pc = "loop", ![w].vsent = TRUE,
                                  ![w].vbefore = IF me.first THEN Timeval(now) ELSE @]
                /\ UNCHANGED sessions
        /\ UNCHANGED << rtpVars, parseVars, paceVars, lua_sessions_mutex, rec_mutex, recordings,
                       chains, calls, ncalls, now, ticks >>

\* the worker leaving without its terminal event
WorkerLeaveSilent(w) ==
    /\ w \in DOMAIN workers /\ workers[w].pc = "leave"
    /\ workers' = [workers EXCEPT ![w].pc = "cleanup", ![w].exit = "ended"]
    /\ UNCHANGED << rtpVars, parseVars, paceVars, sessions, lua_sessions_mutex, rec_mutex,
                   recordings, chains, calls, ncalls, now, ticks >>

\* lines 754-761: the terminal event, by the stop flag of the session's recording
WorkerLeave(w) ==
    LET me == workers[w]
        stop == recordings[sessions[me.session].recording].stop_playing
    IN  /\ w \in DOMAIN workers /\ workers[w].pc = "leave"
        /\ workers' = [workers EXCEPT ![w].pc = "cleanup",
                          ![w].exit = IF stop THEN "stopped" ELSE "ended",
                          ![w].trace = Append(@, PlayEvent(IF stop THEN "stopped" ELSE "ended"))]
        /\ UNCHANGED << rtpVars, parseVars, paceVars, sessions, lua_sessions_mutex, rec_mutex,
                       recordings, chains, calls, ncalls, now, ticks >>

\* g_free of every descriptor of a chain
FreeChain(heap, chain) == IF chain = NULL THEN heap ELSE [heap EXCEPT ![chain].freed = TRUE]

\* lines 763-797: the session's chains are freed and its heads cleared, the
\* files are closed, the worker's two references are given back
WorkerCleanup(w) ==
    LET me == workers[w]
        session == sessions[me.session]
    IN  /\ w \in DOMAIN workers /\ workers[w].pc = "cleanup"
        /\ chains' = FreeChain(FreeChain(chains, session.aframes), session.vframes)
        /\ sessions' = [sessions EXCEPT ![me.session].aframes = NULL,
                           ![me.session].vframes = NULL, ![me.session].ref = @ - 1]
        /\ recordings' = RecordingUnref(recordings, me.rec)
        /\ workers' = [workers EXCEPT ![w].pc = "exited"]
        /\ UNCHANGED << rtpVars, parseVars, paceVars, lua_sessions_mutex, rec_mutex, calls, ncalls,
                       now, ticks >>

(***************************************************************************)
(* The environment: the clock, and the plugin's other code acting on a     *)
(* session                                                                 *)
(***************************************************************************)

Tick(d) ==
    /\ ticks < MaxTicks
    /\ ticks' = ticks + 1
    /\ now' = now + d
    /\ UNCHANGED << rtpVars, parseVars, paceVars, sessions, lua_sessions_mutex, rec_mutex,
                   recordings, chains, calls, ncalls, workers >>

\* the session is destroyed (its destroyed flag is set)
DestroySession(id) ==
    /\ ~sessions[id].destroyed
    /\ sessions' = [sessions EXCEPT ![id].destroyed = TRUE]
    /\ UNCHANGED << rtpVars, parseVars, paceVars, lua_sessions_mutex, rec_mutex, recordings, chains,
                   calls, ncalls, workers, now, ticks >>

\* the session's media goes down (its active flag is cleared)
HangupMedia(id) ==
    /\ sessions[id].active
    /\ sessions' = [sessions EXCEPT ![id].active = FALSE]
    /\ UNCHANGED << rtpVars, parseVars, paceVars, lua_sessions_mutex, rec_mutex, recordings, chains,
                   calls, ncalls, workers, now, ticks >>

\* the session starts to record (its recorder flag is set); the flag is read
\* at a worker's entry only (line 532), so it is set before the session has one
StartRecorder(id) ==
    /\ ~sessions[id].recorder
    /\ \A w \in DOMAIN workers : workers[w].session # id
    /\ sessions' = [sessions EXCEPT ![id].recorder = TRUE]
    /\ UNCHANGED << rtpVars, parseVars, paceVars, lua_sessions_mutex, rec_mutex, recordings, chains,
                   calls, ncalls, workers, now, ticks >>

WorkerIds == 1 .. Cardinality(SessionIds)

CallStep(c) ==
    \/ \E id \in SessionIds \cup { UnknownId }, n \in StartArgs : StartPlayingEnter(c, id, n)
    \/ \E id \in SessionIds \cup { UnknownId }, n \in StopArgs : StopPlayingEnter(c, id, n)
    \/ LockSessions(c)
    \/ Lookup(c)
    \/ LockRec(c)
    \/ UnlockSessions(c)
    \/ \E files \in StartFiles(calls[c].args[1]) : StartPlayingBody(c, files)
    \/ \E error \in BOOLEAN : StartPlayingSpawn(c, error)
    \/ StartPlayingFinish(c)
    \/ StopPlayingBody(c)

WorkerStep(w) ==
    \/ \E afile, vfile \in BOOLEAN : WorkerEntry(w, afile, vfile)
    \/ WorkerLoop(w)
    \/ WorkerAudio(w)
    \/ WorkerVideo(w)
    \/ WorkerBurst(w)
    \/ WorkerLeave(w)
    \/ WorkerCleanup(w)

EnvStep ==
    \/ \E d \in TickSteps : Tick(d)
    \/ \E id \in SessionIds : DestroySession(id)
    \/ \E id \in SessionIds : HangupMedia(id)
    \/ \E id \in SessionIds : StartRecorder(id)

(***************************************************************************)
(* SpecRtp: one session's continuity context across successive playouts    *)
(*                                                                         *)
(* Each playout sets both seq_reset flags (lines 604-605) and then hands   *)
(* the packets of its indexes, in chain order, to the rewriter; audio and  *)
(* video race on wall time, so the two directions interleave freely.       *)
(***************************************************************************)

\* bounds of SpecRtp: playouts per session, clock advances
MaxPlayouts == 2

MaxRtpTicks == 2

\* the clock advances by a step too short to measure in 8 kHz ticks, or by 20 ms
RtpTickSteps == { 100, 20000 }

\* what a start_playing call is given: an audio file, a video file
RtpRecordings ==
    { << AudioOpus, NoFile >>, << AudioOpus, VideoVp8 >>, << AudioLossy, NoFile >>,
      << AudioPcmu, VideoSwitch >>, << NoFile, VideoVp8 >> }

NoPacket == [ ssrc |-> 0, timestamp |-> U32Zero, seq_number |-> 0, type |-> 0 ]

\* history: per direction the last packet relayed (the playout it belonged to,
\* the header read from the file, the header as relayed), and the last call of
\* the rewriter (the context before it, its header in and out, the direction's
\* previous packet, the wall time)
NoRelay == [ playout |-> 0, hdr |-> NoPacket, out |-> NoPacket ]

NoRewrite ==
    [ playout |-> 0, video |-> FALSE, pre |-> ZeroContext,
      hdr |-> NoPacket, out |-> NoPacket, prev |-> NoRelay, at |-> 0 ]

InitRtpVars ==
    /\ rctx = ZeroContext
    /\ rnow = 1
    /\ rticks = 0
    /\ rplayouts = 0
    /\ raudio = << >>
    /\ rvideo = << >>
    /\ rprev = [ a |-> NoRelay, v |-> NoRelay ]
    /\ rlast = NoRewrite

\* start_playing parses the two files and, with at least one index, the worker
\* begins: lines 81-104, 589, 604-605
RtpStartPlayout(files) ==
    LET aframes == janus_play_get_frames(files[1])
        vframes == janus_play_get_frames(files[2])
    IN  /\ rplayouts < MaxPlayouts
        /\ raudio = << >> /\ rvideo = << >>
        /\ ~(aframes = << >> /\ vframes = << >>)
        /\ rplayouts' = rplayouts + 1
        /\ raudio' = PacketsOf(files[1], aframes)
        /\ rvideo' = PacketsOf(files[2], vframes)
        /\ rctx' = SetSeqReset(rctx)
        /\ UNCHANGED << mainVars, parseVars, paceVars, rnow, rticks, rprev, rlast >>

\* lines 621-637 and 665-678: the next audio packet is rewritten and relayed
RtpRelayAudio ==
    /\ raudio # << >>
    /\ LET r == janus_rtp_header_update2(rctx, Head(raudio), FALSE, rnow)
       IN  /\ rctx' = r.context
           /\ rlast' = [ playout |-> rplayouts, video |-> FALSE, pre |-> rctx,
                         hdr |-> Head(raudio), out |-> r.header,
                         prev |-> rprev.a, at |-> rnow ]
           /\ rprev' = [rprev EXCEPT !.a = [ playout |-> rplayouts,
                                             hdr |-> Head(raudio), out |-> r.header ]]
    /\ raudio' = Tail(raudio)
    /\ UNCHANGED << mainVars, parseVars, paceVars, rnow, rticks, rplayouts, rvideo >>

\* lines 686-700 and 733-748: the next video packet is rewritten and relayed
RtpRelayVideo ==
    /\ rvideo # << >>
    /\ LET r == janus_rtp_header_update2(rctx, Head(rvideo), TRUE, rnow)
       IN  /\ rctx' = r.context
           /\ rlast' = [ playout |-> rplayouts, video |-> TRUE, pre |-> rctx,
                         hdr |-> Head(rvideo), out |-> r.header,
                         prev |-> rprev.v, at |-> rnow ]
           /\ rprev' = [rprev EXCEPT !.v = [ playout |-> rplayouts,
                                             hdr |-> Head(rvideo), out |-> r.header ]]
    /\ rvideo' = Tail(rvideo)
    /\ UNCHANGED << mainVars, parseVars, paceVars, rnow, rticks, rplayouts, raudio >>

\* wall time passes
RtpTick(d) ==
    /\ rticks < MaxRtpTicks
    /\ rticks' = rticks + 1
    /\ rnow' = rnow + d
    /\ UNCHANGED << mainVars, parseVars, paceVars, rctx, rplayouts, raudio, rvideo, rprev, rlast >>

NextRtp ==
    \/ \E files \in RtpRecordings : RtpStartPlayout(files)
    \/ RtpRelayAudio
    \/ RtpRelayVideo
    \/ \E d \in RtpTickSteps : RtpTick(d)

\* lines 228-232: the locals of the parser before its first pass
NoScan ==
    [ parsed_header |-> FALSE, failed |-> FALSE,
      first_ts |-> U32Zero, last_ts |-> U32Zero, reset |-> U32Zero ]

\* no file is being parsed
IdleParseVars ==
    /\ pfile = NoFile
    /\ pkind = "none"
    /\ ppc = "idle"
    /\ pchain = << >>
    /\ pscan = NoScan
    /\ plinks = << >>

\* no reference time is being followed
IdlePaceVars ==
    /\ tbefore = NoTimeval
    /\ tprev = NoTimeval
    /\ tdue = 0
    /\ tsent = 0

InitRtp == InitRtpVars /\ InitMainVars /\ IdleParseVars /\ IdlePaceVars

SpecRtp == InitRtp /\ [][NextRtp]_allVars

(***************************************************************************)
(* SpecParse: janus_play_get_frames on the files of a recordings folder    *)
(*                                                                         *)
(* The files: frames written in any order, with equal timestamps, equal    *)
(* sequence numbers and sequence numbers 10000 and more apart; streams     *)
(* whose 32-bit timestamp wraps once; files whose last record the end of   *)
(* the file cuts short; files of the modern format.                        *)
(***************************************************************************)

\* bound: the frames of a file written in any order, and the frames on each
\* side of a timestamp wrap
MaxFrames == 3

\* two timestamps 20 ms apart
ParseTimestamps == { << 0, 1000 >>, << 0, 1960 >> }

\* sequence numbers: neighbours, 10000 and 10001 apart, and across the wrap
ParseSeqs == { 0, 1, 10000, 10001, 65535 }

ParseFrames == { Frame(7, 111, seq, ts) : seq \in ParseSeqs, ts \in ParseTimestamps }

RECURSIVE FramesOfLen(_)
FramesOfLen(n) ==
    IF n = 0 THEN { << >> }
    ELSE { Append(f, r) : f \in FramesOfLen(n - 1), r \in ParseFrames }

\* legacy audio files of up to MaxFrames frames in any order
AnyOrderFiles ==
    { << LegacyHeader("a") >> \o f : f \in UNION { FramesOfLen(n) : n \in 1 .. MaxFrames } }

\* the first timestamp of a stream about to wrap (0xFFFFF000), the 20 ms step,
\* the timestamps a stream restarts at
WrapFirstTs == << 65535, 61440 >>

WrapStep == 960

WrapStarts == { 0, 256 }

\* a stream of npre frames rising from WrapFirstTs, then npost frames rising
\* from start, sequence numbers running on
WrapFile(npre, start, npost) ==
    << LegacyHeader("a") >>
      \o [ k \in 1 .. npre |->
             Frame(7, 111, 99 + k, U32Add(WrapFirstTs, U32OfInt(WrapStep * (k - 1)))) ]
      \o [ j \in 1 .. npost |->
             Frame(7, 111, 99 + npre + j, U32OfInt(start + WrapStep * (j - 1))) ]

WrapFiles ==
    { WrapFile(npre, start, npost) :
        npre \in 1 .. MaxFrames, start \in WrapStarts, npost \in 1 .. MaxFrames }

\* bytes missing at the end of a file: part of the last frame's payload (the
\* RTP header is whole, or all but its last 4 bytes), or all of it and part of
\* its tag
CutSizes == { 4, 12, 25 }

CutLast(file, n) == [file EXCEPT ![Len(file)].cut = n]

CutFiles ==
    { CutLast(SubSeq(AudioOpus, 1, n), c) : n \in 2 .. Len(AudioOpus), c \in CutSizes }

\* modern files: the info header, then one or two frames; and the same with
\* a second 'MJR' record behind the first frame, before another frame or as
\* the last record of the file
ModernFiles ==
    { << InfoHeader("ok") >> \o f : f \in FramesOfLen(1) \cup FramesOfLen(2) }
      \cup { << InfoHeader("ok"), a, InfoHeader("ok") >> \o f :
                a \in ParseFrames, f \in FramesOfLen(0) \cup FramesOfLen(1) }

InitParseVars ==
    /\ \/ pkind = "any" /\ pfile \in AnyOrderFiles
       \/ pkind = "wrap" /\ pfile \in WrapFiles
       \/ pkind = "cut" /\ pfile \in CutFiles
       \/ pkind = "modern" /\ pfile \in ModernFiles
    /\ ppc = "opened"
    /\ pchain = << >>
    /\ pscan = NoScan
    /\ plinks = << >>

\* lines 207-515: the file is parsed and its index returned
GetFrames ==
    /\ ppc = "opened"
    /\ pchain' = janus_play_get_frames(pfile)
    /\ pscan' = Pass1(pfile)
    /\ plinks' = Pass2Links(pfile)
    /\ ppc' = "parsed"
    /\ UNCHANGED << mainVars, rtpVars, paceVars, pfile, pkind >>

NextParse == GetFrames

InitParse == InitParseVars /\ InitMainVars /\ InitRtpVars /\ IdlePaceVars

SpecParse == InitParse /\ [][NextParse]_allVars

(***************************************************************************)
(* SpecPace: the reference time of one direction over the packets sent     *)
(*                                                                         *)
(* The reference time starts as gettimeofday left it (lines 587-588,       *)
(* 634-635, 702-703) and is moved on at every later packet by that         *)
(* packet's pacing interval (lines 655-663, 722-730).                      *)
(***************************************************************************)

\* bound: how many packets after the first are sent
MaxSends == 2

\* what gettimeofday returns: seconds, and microseconds below a million
PaceClocks ==
    { [ tv_sec |-> s, tv_usec |-> u ] : s \in { 0, 1 }, u \in { 0, 480000, 980000, 999999 } }

\* the timestamp steps between two descriptors: none, 20 ms, half a second,
\* one tick either side of a second, two and a half seconds (at 48 kHz)
PaceTsSteps == { 0, 960, 24000, 47999, 48000, 48001, 120000 }

PaceKhz == { AudioKhz, VideoKhz }

\* two descriptors step timestamp units apart
PaceFrames(step) ==
    << [ ts |-> [ hi |-> 0, lo |-> U32Zero ] ], [ ts |-> [ hi |-> 0, lo |-> U32OfInt(step) ] ] >>

InitPaceVars ==
    /\ tbefore \in PaceClocks
    /\ tprev = tbefore
    /\ tdue = 0
    /\ tsent = 0

\* lines 640-641 and 655-663 (707-708 and 722-730): a non-first packet is
\* sent and the reference time moved on by its interval
PaceSend(step, khz) ==
    LET ts_diff == TsDiffUs(PaceFrames(step), 2, khz)
    IN  /\ tsent < MaxSends
        /\ tdue' = ts_diff
        /\ tprev' = tbefore
        /\ tbefore' = AdvanceBefore(tbefore, ts_diff)
        /\ tsent' = tsent + 1
        /\ UNCHANGED << mainVars, rtpVars, parseVars >>

NextPace == \E step \in PaceTsSteps : \E khz \in PaceKhz : PaceSend(step, khz)

InitPace == InitPaceVars /\ InitMainVars /\ InitRtpVars /\ IdleParseVars

SpecPace == InitPace /\ [][NextPace]_allVars

(***************************************************************************)
(* Spec: the whole program; FairSpec: with every thread scheduled          *)
(***************************************************************************)

Next ==
    \/ \E c \in Callers : CallStep(c)
    \/ \E w \in WorkerIds : WorkerStep(w)
    \/ EnvStep

Init == InitMainVars /\ InitRtpVars /\ IdleParseVars /\ IdlePaceVars

Spec == Init /\ [][Next]_allVars

Fairness ==
    /\ \A w \in WorkerIds : WF_allVars(WorkerStep(w))
    /\ \A c \in Callers :
          WF_allVars(LockSessions(c) \/ Lookup(c) \/ LockRec(c) \/ UnlockSessions(c)
                        \/ (\E files \in StartFiles(calls[c].args[1]) : StartPlayingBody(c, files))
                        \/ (\E error \in BOOLEAN : StartPlayingSpawn(c, error))
                        \/ StartPlayingFinish(c) \/ StopPlayingBody(c))

\* the program while no session is destroyed or hung up
NextUndisturbed ==
    \/ \E c \in Callers : CallStep(c)
    \/ \E w \in WorkerIds : WorkerStep(w)
    \/ \E d \in TickSteps : Tick(d)
    \/ \E id \in SessionIds : StartRecorder(id)

FairSpec == Init /\ [][NextUndisturbed]_allVars /\ Fairness

(***************************************************************************)
(* Properties of the control surface and the playout worker                *)
(***************************************************************************)

\* the relay_rtp calls of one direction in a worker's trace
RelaysOf(trace, video) == SelectSeq(trace, LAMBDA e : e[1] = "rtp" /\ e[2] = video)

ChainLen(chain) == IF chain = NULL THEN 0 ELSE Len(chains[chain].frames)

\* the worker has relayed every descriptor of both of its indexes
AllRelayed(w) ==
    /\ Len(RelaysOf(workers[w].trace, FALSE)) = ChainLen(workers[w].achain)
    /\ Len(RelaysOf(workers[w].trace, TRUE)) = ChainLen(workers[w].vchain)

IsTerminal(e) == e = PlayEvent("ended") \/ e = PlayEvent("stopped")

HasLeft(w) == workers[w].pc \in { "cleanup", "exited" } /\ workers[w].exit # "refused"

\* the start_playing call that spawned worker w has returned
StartReturned(w) == \A c \in Callers : ~(calls[c].pc = "sp_finish" /\ calls[c].spawned = w)

InLoop(w) == workers[w].pc \in { "loop", "audio", "video", "burst" }

\* a stop_playing call has just been made for a session whose start_playing
\* call returned OK and whose worker is in its loop
StopDuringPlayout(c) ==
    /\ calls[c].op = "stop" /\ calls[c].pc = "tp_lock_sessions"
    /\ \E w \in DOMAIN workers :
          /\ workers[w].session = calls[c].id
          /\ InLoop(w)
          /\ StartReturned(w)

\* C1: a stop_playing call made for a session after its start_playing returned
\* OK and while its worker runs returns OK (and so gets to set the stop flag).
C1_StopReturnsOk ==
    \A c \in Callers :
        StopDuringPlayout(c) ~>
            (calls[c].op = "stop" /\ calls[c].pc = "returned"
                /\ calls[c].ret = JANUS_LUA_EXTRA_PLAY_OK)

\* C3: with no stop, no hangup and no destruction, a worker that has emitted
\* "start" eventually has relayed every descriptor of its indexes and has
\* emitted "ended".
C3_PlayoutEnds ==
    \A w \in WorkerIds :
        (w \in DOMAIN workers /\ workers[w].trace # << >>) ~>
            (w \in DOMAIN workers /\ HasLeft(w) /\ workers[w].exit = "ended"
                /\ AllRelayed(w) /\ workers[w].trace[Len(workers[w].trace)] = PlayEvent("ended"))

\* a worker that played an audio and a video index to their ends
C3_Witness ==
    \E w \in DOMAIN workers :
        /\ workers[w].exit = "ended" /\ workers[w].pc = "exited"
        /\ workers[w].achain # NULL /\ workers[w].vchain # NULL
        /\ AllRelayed(w)

\* C4: a worker's trace begins with its only "start" event, which so precedes
\* every relay; a terminal event is the last entry of the trace and is there
\* once the worker has left its loop; it is "stopped" if the stop flag of the
\* session's recording is set and "ended" otherwise.
C4_TraceOrdered ==
    \A w \in DOMAIN workers :
        LET trace == workers[w].trace
            stop == recordings[sessions[workers[w].session].recording].stop_playing
        IN  /\ trace # << >> => trace[1] = PlayEvent("start")
            /\ \A k \in 2 .. Len(trace) : trace[k] # PlayEvent("start")
            /\ \A k \in 1 .. Len(trace) :
                  IsTerminal(trace[k]) => k = Len(trace) /\ HasLeft(w)
            /\ HasLeft(w) =>
                  trace[Len(trace)] = PlayEvent(IF stop THEN "stopped" ELSE "ended")

\* a worker that left its loop after relaying packets
C4_Witness ==
    \E w \in DOMAIN workers :
        /\ HasLeft(w)
        /\ Len(workers[w].trace) >= 4
        /\ IsTerminal(workers[w].trace[Len(workers[w].trace)])

\* C5: in each direction the k-th packet a worker relays is the k-th
\* descriptor of the index chain, so every descriptor goes out at most once and
\* only after all that precede it.
C5_ChainOrder ==
    \A w \in DOMAIN workers : \A video \in BOOLEAN :
        LET relays == RelaysOf(workers[w].trace, video)
        IN  \A k \in 1 .. Len(relays) : relays[k][3] = k

\* a worker that relayed two audio packets of a recording written out of order
\* and the four video packets
C5_Witness ==
    \E w \in DOMAIN workers :
        /\ workers[w].achain # NULL
        /\ chains[workers[w].achain].file = "audio.mjr"
        /\ Len(RelaysOf(workers[w].trace, FALSE)) = 2
        /\ Len(RelaysOf(workers[w].trace, TRUE)) = 4

\* a start_playing call with a valid argument count that found its session
\* and has returned
StartPastLookup(c) ==
    /\ calls[c].op = "start" /\ calls[c].pc = "returned"
    /\ calls[c].ret # JANUS_LUA_EXTRA_PLAY_ERROR_WRONG_NUMBER_ARUMENTS
    /\ calls[c].ret # JANUS_LUA_EXTRA_PLAY_ERROR_SESSION_NOT_FOUND

ParsedAudio(c) == ParsedFiles[calls[c].args[2]] # << >>

ParsedVideo(c) ==
    calls[c].args[1] = 6 /\ ParsedFiles[calls[c].args[3]] # << >>

NoWorkerOf(id) == \A w \in DOMAIN workers : workers[w].session # id

\* the call returned INVALID_RECORDING: no worker, no event, session not active
ReturnedInvalid(c) ==
    /\ calls[c].ret = JANUS_LUA_EXTRA_PLAY_ERROR_INVALID_RECORDING
    /\ calls[c].spawned = 0
    /\ NoWorkerOf(calls[c].id)
    /\ ~sessions[calls[c].id].active

\* the call returned OK: its worker relays packets of the parsed tracks only
ReturnedPlaying(c) ==
    /\ calls[c].ret = JANUS_LUA_EXTRA_PLAY_OK
    /\ calls[c].spawned \in DOMAIN workers
    /\ ~ParsedAudio(c) => RelaysOf(workers[calls[c].spawned].trace, FALSE) = << >>
    /\ ~ParsedVideo(c) => RelaysOf(workers[calls[c].spawned].trace, TRUE) = << >>

\* the call returned THREAD_START: no worker, no event
ReturnedThreadStart(c) ==
    /\ calls[c].ret = JANUS_LUA_EXTRA_PLAY_ERROR_THREAD_START
    /\ calls[c].spawned = 0
    /\ NoWorkerOf(calls[c].id)

RtpFollows == rlast.playout > 0 /\ rlast.prev.playout = rlast.playout

RtpOpensLater ==
    rlast.playout > 0 /\ rlast.prev.playout > 0 /\ rlast.prev.playout < rlast.playout

\* b is ahead of a by d in 32-bit modular order: 0 < d < 2^31
U32Ahead(a, b) == LET d == U32Sub(b, a) IN d # U32Zero /\ d[1] < H16

\* the direction's last_ssrc, last_ts and last_time before the last rewrite
PreLastSsrc == IF rlast.video THEN rlast.pre.v_last_ssrc ELSE rlast.pre.a_last_ssrc

PreLastTs == IF rlast.video THEN rlast.pre.v_last_ts ELSE rlast.pre.a_last_ts

PreLastTime == IF rlast.video THEN rlast.pre.v_last_time ELSE rlast.pre.a_last_time

RtpSsrcChange == rlast.playout > 0 /\ rlast.hdr.ssrc # PreLastSsrc /\ PreLastTime > 0

\* C7 as stated: within a playout, every relayed packet of a direction carries
\* the previous relayed packet's output sequence number plus 1 (mod 2^16).
C7_SeqConsecutive ==
    RtpFollows => rlast.out.seq_number = (rlast.prev.out.seq_number + 1) % W16

\* C7 amended: within a playout, the output sequence number of a packet exceeds
\* the previous packet's by the difference of their recorded sequence numbers
\* when the SSRC is the same, and by 1 when the SSRC changed (mod 2^16).
C7_SeqFollowsRecording ==
    RtpFollows =>
        rlast.out.seq_number =
            (rlast.prev.out.seq_number
               + (IF rlast.hdr.ssrc = rlast.prev.hdr.ssrc
                  THEN rlast.hdr.seq_number - rlast.prev.hdr.seq_number
                  ELSE 1)) % W16

\* a packet relayed right after one it does not follow in the recording's
\* sequence numbering (a packet was lost while recording)
C7_Witness ==
    /\ RtpFollows
    /\ rlast.hdr.ssrc = rlast.prev.hdr.ssrc
    /\ rlast.hdr.seq_number = rlast.prev.hdr.seq_number + 2
    /\ rlast.out.seq_number = rlast.prev.out.seq_number + 2

\* C8: the first packet a later playout relays in a direction carries the
\* direction's last output sequence number plus 1 (mod 2^16), whether or not
\* the SSRC changed.
C8_FirstSeqContinues ==
    RtpOpensLater => rlast.out.seq_number = (rlast.prev.out.seq_number + 1) % W16

\* a second playout of a recording with the SSRC of the first has relayed its
\* first packet, whose recorded number does not follow the last one played
C8_Witness ==
    /\ RtpOpensLater
    /\ rlast.hdr.ssrc = rlast.prev.hdr.ssrc
    /\ rlast.hdr.seq_number # (rlast.prev.hdr.seq_number + 1) % W16
    /\ rlast.out.seq_number = (rlast.prev.out.seq_number + 1) % W16

\* C9: the first packet a later playout relays in a direction carries an output
\* timestamp strictly ahead (32-bit modular order) of the direction's last
\* output timestamp.
C9_FirstTsAhead ==
    RtpOpensLater => U32Ahead(rlast.prev.out.timestamp, rlast.out.timestamp)

\* C10: at an SSRC change T ms after the direction's previous packet, the output
\* timestamp is ahead of the pre-change last_ts by at least T*rate/1000 ticks
\* (90 kHz video, 48 kHz audio, 8 kHz for payload types 0, 8, 9) and by at
\* least one tick (mod 2^32).
C10_TsAheadByElapsed ==
    RtpSsrcChange =>
        LET T    == (rlast.at - PreLastTime) \div 1000
            rate == IF rlast.video THEN 90000
                    ELSE IF rlast.hdr.type \in { 0, 8, 9 } THEN 8000 ELSE 48000
            d    == U32Sub(rlast.out.timestamp, PreLastTs)
        IN  /\ d[1] < H16
            /\ IntOfU32(d) >= (T * rate) \div 1000
            /\ IntOfU32(d) >= 1

\* an 8 kHz audio packet of a new SSRC, rewritten 20 ms or more after the
\* previous audio packet and given exactly the elapsed ticks
C10_Witness ==
    /\ RtpSsrcChange
    /\ ~rlast.video
    /\ rlast.hdr.type = 0
    /\ rlast.at - PreLastTime >= 20000
    /\ rlast.out.timestamp = U32Add(PreLastTs, U32OfInt(((rlast.at - PreLastTime) * 8) \div 1000))

(***************************************************************************)
(* Properties of the parser (SpecParse)                                    *)
(***************************************************************************)

\* b follows a by the insertion rules for equal timestamps
SeqOrdered(a, b) ==
    \/ a.seq < b.seq /\ b.seq - a.seq < SeqWrapGap
    \/ a.seq > b.seq /\ a.seq - b.seq > SeqWrapGap

\* two sequence numbers the insertion rules do not order: equal ones and ones
\* exactly 10000 apart
SeqUnordered(a, b) == a.seq = b.seq \/ Abs(a.seq - b.seq) = SeqWrapGap

AdjacentPairs == { i \in 1 .. Len(pchain) : i < Len(pchain) }

\* C11 as stated: every adjacent pair of the emitted chain has rising
\* timestamps, or equal timestamps and sequence numbers ordered by the
\* insertion rules.
C11_ChainOrdered ==
    ppc = "parsed" =>
        \A i \in AdjacentPairs :
            \/ Ts64Lt(pchain[i].ts, pchain[i + 1].ts)
            \/ pchain[i].ts = pchain[i + 1].ts /\ SeqOrdered(pchain[i], pchain[i + 1])

\* C11 amended: every adjacent pair of the emitted chain has rising
\* timestamps, or equal timestamps and sequence numbers that are ordered by
\* the insertion rules, equal, or exactly 10000 apart.
C11_ChainOrderedButTies ==
    ppc = "parsed" =>
        \A i \in AdjacentPairs :
            \/ Ts64Lt(pchain[i].ts, pchain[i + 1].ts)
            \/ /\ pchain[i].ts = pchain[i + 1].ts
               /\ \/ SeqOrdered(pchain[i], pchain[i + 1])
                  \/ SeqUnordered(pchain[i], pchain[i + 1])

\* a file written out of order whose three frames of one timestamp came out
\* in sequence order across the wrap
C11_Witness ==
    /\ ppc = "parsed" /\ pkind = "any"
    /\ Len(pchain) = 3
    /\ pchain[1].rec > pchain[2].rec
    /\ pchain[1].ts = pchain[3].ts
    /\ pchain[1].seq = 65535 /\ pchain[2].seq = 0 /\ pchain[3].seq = 1

\* record i of a wrapped stream was written after the wrap: its timestamp is
\* below the first frame's
PostReset(file, i) == U32Lt(file[i].ts, file[2].ts)

\* C12: for a stream whose 32-bit timestamps rise, reset once to a small value
\* and rise again, the chain is in the file's record order, strictly
\* increasing in 64 bits, with raw timestamps before the reset and 2^32 + raw
\* after it.
C12_WrapRecovered ==
    (ppc = "parsed" /\ pkind = "wrap") =>
        /\ Len(pchain) = Len(pfile) - 1
        /\ \A k \in 1 .. Len(pchain) :
              /\ pchain[k].rec = k + 1
              /\ pchain[k].ts = [ hi |-> IF PostReset(pfile, k + 1) THEN 1 ELSE 0,
                                  lo |-> pfile[k + 1].ts ]
        /\ \A k \in AdjacentPairs : Ts64Lt(pchain[k].ts, pchain[k + 1].ts)

\* the byte offset at which record i of a file begins, and the file's size
RECURSIVE RecordStart(_, _)
RecordStart(file, i) ==
    IF i = 1 THEN 0 ELSE RecordStart(file, i - 1) + RecordBytes(file[i - 1])

FileSize(file) == RecordStart(file, Len(file) + 1)

\* C13: every descriptor of a parsed index points right behind the tag and
\* length of a frame record, carries that record's framed length of 12 or
\* more, and lies within the file; a record cut short by the end of the file
\* has no descriptor: the index is the one built from the records before it.
C13_DescriptorsComplete ==
    ppc = "parsed" =>
        /\ \A k \in 1 .. Len(pchain) :
              LET d == pchain[k]
              IN  /\ d.offset = RecordStart(pfile, d.rec) + RecordHeaderLen
                  /\ d.len = pfile[d.rec].len
                  /\ d.len >= MinRtpLen
                  /\ d.offset + d.len <= FileSize(pfile)
        /\ pkind = "cut" =>
              pchain = janus_play_get_frames(SubSeq(pfile, 1, Len(pfile) - 1))

(***************************************************************************)
(* Properties of the worker's entry, the locks, the references (Spec)      *)
(***************************************************************************)

\* the worker has begun on a session that was destroyed, a recorder, or
\* without any index
BeganOnUnfit(w) ==
    /\ workers[w].pc # "entry"
    /\ \/ workers[w].began.destroyed
       \/ workers[w].began.recorder
       \/ workers[w].began.empty

\* C14: a worker that begins on a session that is destroyed, is a recorder or
\* has both indexes empty refuses to start: it relays no packet and emits no
\* event.
C14_RefusesToStart ==
    \A w \in DOMAIN workers :
        BeganOnUnfit(w) => workers[w].exit = "refused" /\ workers[w].trace = << >>

(***************************************************************************)
(* Properties of the rewriter's sequence reset (SpecRtp)                   *)
(***************************************************************************)

\* the context of the last call of the rewriter as the sequence-reset block
\* found it (after the SSRC block), and as the call left it
AtSeqReset ==
    IF rlast.video THEN VideoSsrcChanged(rlast.pre, rlast.hdr, rlast.at)
    ELSE AudioSsrcChanged(rlast.pre, rlast.hdr, rlast.at)

AfterRewrite == janus_rtp_header_update2(rlast.pre, rlast.hdr, rlast.video, rlast.at).context

\* C20: a packet processed while its direction's seq_reset is set leaves that
\* direction's base_ts_prev at that direction's last_ts + 2000, base_seq_prev
\* at last_seq, base_seq at the packet's raw sequence number, and the flag
\* cleared.
C20_SeqResetSameDirection ==
    /\ (rlast.playout > 0 /\ rlast.video /\ rlast.pre.v_seq_reset) =>
          /\ AfterRewrite.v_base_ts_prev = U32Add(AtSeqReset.v_last_ts, U32OfInt(PlaybackTsBump))
          /\ AfterRewrite.v_base_seq_prev = AtSeqReset.v_last_seq
          /\ AfterRewrite.v_base_seq = rlast.hdr.seq_number
          /\ ~AfterRewrite.v_seq_reset
    /\ (rlast.playout > 0 /\ ~rlast.video /\ rlast.pre.a_seq_reset) =>
          /\ AfterRewrite.a_base_ts_prev = U32Add(AtSeqReset.a_last_ts, U32OfInt(PlaybackTsBump))
          /\ AfterRewrite.a_base_seq_prev = AtSeqReset.a_last_seq
          /\ AfterRewrite.a_base_seq = rlast.hdr.seq_number
          /\ ~AfterRewrite.a_seq_reset

\* a control call is under way; it has returned; it holds no mutex
InCall(c) == calls[c].pc \notin { "idle", "returned" }

Returned(c) == calls[c].pc = "returned"

HoldsNoMutex(c) ==
    /\ lua_sessions_mutex # c
    /\ \A id \in SessionIds : rec_mutex[id] # c

\* C15: every control call under way eventually returns, and a call that has
\* returned holds neither the session-table mutex nor a session's rec_mutex.
C15_CallsReturn ==
    /\ \A c \in Callers : InCall(c) ~> Returned(c)
    /\ [](\A c \in Callers : Returned(c) => HoldsNoMutex(c))

\* C16: no control call holds the session-table mutex while it waits for or
\* holds a session's rec_mutex.
C16_TableReleasedFirst ==
    \A c \in Callers :
        lua_sessions_mutex = c =>
            /\ calls[c].pc \notin { "sp_lock_rec", "tp_lock_rec" }
            /\ \A id \in SessionIds : rec_mutex[id] # c

\* every control call has returned and every worker has exited
Quiescent ==
    /\ \A c \in Callers : ~InCall(c)
    /\ \A w \in DOMAIN workers : workers[w].pc = "exited"

\* C17: once the control calls have returned and the workers they spawned
\* have exited, every session's refcount is back to the value it had before
\* the calls and every recording handle the calls created has been released.
C17_ReferencesReleased ==
    Quiescent =>
        /\ \A id \in SessionIds : sessions[id].ref = NewSession.ref
        /\ \A h \in DOMAIN recordings : recordings[h].freed

\* the recording handle that session id points to is allocated and not freed
HandleAlive(id) ==
    /\ sessions[id].recording # NULL
    /\ ~recordings[sessions[id].recording].freed

\* the worker stands before a read of session->recording->stop_playing
\* (lines 611, 756)
ReadsStopFlag(w) == workers[w].pc \in { "loop", "leave" }

\* C18: a control call that is about to use session->recording (the reference
\* counting of lines 118-133, the write of the stop flag at line 164) and a
\* worker that is about to read its stop flag find the handle alive.
C18_HandleAliveWhenUsed ==
    /\ \A c \in Callers :
          /\ calls[c].pc \in { "sp_spawn", "sp_finish" } => HandleAlive(calls[c].id)
          /\ (calls[c].pc = "tp_body" /\ sessions[calls[c].id].recording # NULL) =>
                HandleAlive(calls[c].id)
    /\ \A w \in DOMAIN workers : ReadsStopFlag(w) => HandleAlive(workers[w].session)

\* a worker about to read the stop flag for its terminal event, after the
\* start_playing call has returned and given its reference back
C18_Witness ==
    \E w \in DOMAIN workers :
        /\ workers[w].pc = "leave"
        /\ StartReturned(w)
        /\ recordings[workers[w].rec].ref = 1
        /\ HandleAlive(workers[w].session)

Running(w) == workers[w].pc # "exited"

\* the worker is past its entry: it iterates the session's indexes and reads
\* its recording handle
Iterating(w) == workers[w].pc \in { "loop", "audio", "video", "burst", "leave", "cleanup" }

\* C19: a session has at most one running worker; no start_playing call is
\* about to replace the session's index heads and recording handle while a
\* worker of the session runs; the heads and the handle a worker iterates are
\* those the session holds.
C19_OneWorkerPerSession ==
    /\ \A id \in SessionIds :
          Cardinality({ w \in DOMAIN workers : workers[w].session = id /\ Running(w) }) <= 1
    /\ \A c \in Callers :
          calls[c].pc = "sp_body" =>
              \A w \in DOMAIN workers : workers[w].session = calls[c].id => ~Running(w)
    /\ \A w \in DOMAIN workers :
          Iterating(w) =>
              /\ workers[w].achain = sessions[workers[w].session].aframes
              /\ workers[w].vchain = sessions[workers[w].session].vframes
              /\ workers[w].rec = sessions[workers[w].session].recording

\* a worker in its loop while a second start_playing call for its session
\* waits for the session's rec_mutex
C19_Witness ==
    \E w \in DOMAIN workers : \E c \in Callers :
        /\ InLoop(w)
        /\ Len(workers[w].trace) >= 2
        /\ calls[c].op = "start" /\ calls[c].pc = "sp_lock_rec"
        /\ calls[c].id = workers[w].session

(***************************************************************************)
(* Properties of the rewriter's two directions (SpecRtp)                   *)
(***************************************************************************)

VideoFields ==
    { "v_last_ssrc", "v_base_ts", "v_base_ts_prev", "v_last_ts", "v_prev_ts", "v_base_seq",
      "v_base_seq_prev", "v_last_seq", "v_prev_seq", "v_last_time", "v_seq_reset",
      "v_new_ssrc" }

AudioFields ==
    { "a_last_ssrc", "a_base_ts", "a_base_ts_prev", "a_last_ts", "a_prev_ts", "a_base_seq",
      "a_base_seq_prev", "a_last_seq", "a_prev_seq", "a_last_time", "a_seq_reset",
      "a_new_ssrc" }

\* C21: the rewrite of an audio packet leaves every video field of the
\* context as it was, and the rewrite of a video packet every audio field.
C21_DirectionsIndependent ==
    rlast.playout > 0 =>
        \A f \in (IF rlast.video THEN AudioFields ELSE VideoFields) :
            AfterRewrite[f] = rlast.pre[f]

(***************************************************************************)
(* Properties of the worker's pacing (Spec)                                *)
(***************************************************************************)

\* the pacing interval of descriptor i in microseconds
PacingDue(frames, i, khz) == (Ts64Diff(frames[i].ts, frames[i - 1].ts) * 1000) \div khz

\* the audio step of worker w on a non-first descriptor: relayed only when
\* the interval less the slack has passed, else left where it is
AudioPaced(w) ==
    LET me == workers[w]
        frames == chains[me.achain].frames
        early == Passed(Timeval(now), me.abefore)
                     < PacingDue(frames, me.audio, AudioKhz) - PacingSlackUs
    IN  /\ (me.audio > 1 /\ workers'[w].audio # me.audio) => me.pc = "audio" /\ ~early
        /\ (me.pc = "audio" /\ workers'[w].pc # "audio" /\ me.audio > 1
                /\ ~AtEnd(me.achain, me.audio) /\ early)
             => /\ workers'[w].audio = me.audio
                /\ workers'[w].trace = me.trace
                /\ ~workers'[w].asent

\* the video step of worker w on a non-first descriptor: a frame is begun
\* only when the interval less the slack has passed, else the cursor is left
\* where it is; descriptors are relayed by the burst only, and the later
\* ones of a frame (interval 0) no earlier than the slack before the
\* reference time
VideoPaced(w) ==
    LET me == workers[w]
        frames == chains[me.vchain].frames
        early == Passed(Timeval(now), me.vbefore)
                     < PacingDue(frames, me.video, VideoKhz) - PacingSlackUs
    IN  /\ (me.pc = "video" /\ workers'[w].pc = "burst" /\ me.video > 1) => ~early
        /\ (me.video > 1 /\ workers'[w].video # me.video)
             => /\ me.pc = "burst"
                /\ frames[me.video].ts = frames[me.video - 1].ts => ~early
        /\ (me.pc = "video" /\ workers'[w].pc # "video" /\ me.video > 1
                /\ ~AtEnd(me.vchain, me.video) /\ early)
             => /\ workers'[w].video = me.video
                /\ workers'[w].trace = me.trace
                /\ workers'[w].pc = "loop"
                /\ ~workers'[w].vsent

\* C22: a descriptor after the first of its direction is relayed only when
\* passed >= due - 5000 microseconds, due being (ts - prev.ts) * 1000 / khz
\* and passed the time since the direction's reference time; otherwise the
\* iteration relays nothing of that direction and leaves the cursor.
C22_NeverRelayedEarly ==
    [][\A w \in DOMAIN workers : AudioPaced(w) /\ VideoPaced(w)]_allVars

\* a worker relayed the second audio packet and the second video frame
\* inside the slack: the reference times, moved on by their intervals, are
\* still ahead of the clock
C22_Witness ==
    \E w \in DOMAIN workers :
        /\ \E k \in DOMAIN workers[w].trace : workers[w].trace[k] = RelayRtp(FALSE, 2)
        /\ \E k \in DOMAIN workers[w].trace : workers[w].trace[k] = RelayRtp(TRUE, 3)
        /\ now < TimevalUs(workers[w].abefore)
        /\ now < TimevalUs(workers[w].vbefore)

\* a reference time read as microseconds
ReferenceUs(tv) == tv.tv_sec * MillionUs + tv.tv_usec

\* C23: when a non-first packet has been sent, the direction's reference time
\* read as seconds * 10^6 + microseconds has advanced by exactly that
\* packet's pacing interval, and its microseconds are within 0..999999.
C23_ReferenceAdvancesByDue ==
    tsent > 0 =>
        /\ ReferenceUs(tbefore) = ReferenceUs(tprev) + tdue
        /\ tbefore.tv_usec \in 0 .. (MillionUs - 1)

\* the index of the last video descriptor worker w relayed, 0 when none
LastVideoRelayed(w) ==
    LET trace == workers[w].trace
        at == { k \in DOMAIN trace : trace[k][1] = "rtp" /\ trace[k][2] }
    IN  IF at = { } THEN 0 ELSE trace[CHOOSE k \in at : \A j \in at : j <= k][3]

\* worker w stands between two iterations, or at the end of its last
BetweenIterations(w) == workers[w].pc \in { "loop", "leave" }

\* C24: at the end of every iteration the video cursor is at the end of the
\* chain or at a descriptor whose timestamp differs from that of the video
\* descriptor relayed last, which is the cursor's predecessor: descriptors of
\* one timestamp are relayed in one iteration.
C24_FramesRelayedWhole ==
    \A w \in DOMAIN workers :
        (BetweenIterations(w) /\ workers[w].vchain # NULL) =>
            LET me == workers[w]
                frames == chains[me.vchain].frames
                last == LastVideoRelayed(w)
            IN  /\ last = me.video - 1
                /\ \/ last = 0
                   \/ AtEnd(me.vchain, me.video)
                   \/ frames[me.video].ts # frames[last].ts

\* a worker is between two iterations with both packets of the first video
\* frame and both packets of the second relayed
C24_Witness ==
    \E w \in DOMAIN workers :
        /\ workers[w].pc = "loop"
        /\ workers[w].vchain # NULL
        /\ LastVideoRelayed(w) = 4
        /\ \E k \in DOMAIN workers[w].trace : workers[w].trace[k] = RelayRtp(TRUE, 2)
        /\ \E k \in DOMAIN workers[w].trace : workers[w].trace[k] = RelayRtp(TRUE, 3)

\* C25: once a worker has exited, by whatever path, every descriptor of its
\* session's index chains has been freed and both index heads of the session
\* are cleared.
C25_ExitFreesIndexes ==
    \A w \in DOMAIN workers :
        workers[w].pc = "exited" =>
            /\ sessions[workers[w].session].aframes = NULL
            /\ sessions[workers[w].session].vframes = NULL
            /\ \A c \in DOMAIN chains : chains[c].freed

(***************************************************************************)
(* Properties of the parser's first pass (SpecParse)                       *)
(***************************************************************************)

\* the frame records of a file: tag 'ME', length >= 12, the legacy header
\* apart (a record of length 5 is not a frame)
FrameRecords(recs) ==
    SelectSeq(recs, LAMBDA r : TagByte0(r.tag) = "M" /\ TagByte1(r.tag) = "E"
                                   /\ r.len >= MinRtpLen)

\* first_ts, last_ts and reset derived from the timestamps of frames alone
RECURSIVE ScanOfFrames(_, _, _)
ScanOfFrames(frames, i, st) ==
    IF i > Len(frames) THEN st
    ELSE ScanOfFrames(frames, i + 1, Pass1Timestamp(st, frames[i].ts))

\* C26: when pass 1 has gone through a file, first_ts, last_ts and reset are
\* what the timestamps of its frame records alone give (no 'MJR' record has
\* contributed one), and first_ts is the first frame record's timestamp, less
\* 1,000,000 when it is greater than that.
C26_ScanFromFramesOnly ==
    (ppc = "parsed" /\ ~pscan.failed) =>
        LET frames == FrameRecords(pfile)
            scan == ScanOfFrames(frames, 1, NoScan)
        IN  /\ pscan.first_ts = scan.first_ts
            /\ pscan.last_ts = scan.last_ts
            /\ pscan.reset = scan.reset
            /\ frames # << >> =>
                 pscan.first_ts = IF U32Lt(OneMillion32, frames[1].ts)
                                  THEN U32Sub(frames[1].ts, OneMillion32)
                                  ELSE frames[1].ts

(***************************************************************************)
(* Properties of the parser's linked list (SpecParse)                      *)
(***************************************************************************)

\* the descriptors met from n along next, at most fuel of them
RECURSIVE AlongNext(_, _, _)
AlongNext(nodes, n, fuel) ==
    IF n = 0 \/ fuel = 0 THEN << >>
    ELSE << n >> \o AlongNext(nodes, nodes[n].next, fuel - 1)

\* the records of a file that are frames, in the order they are read
FrameIndexes(recs) ==
    SelectSeq([ i \in DOMAIN recs |-> i ],
              LAMBDA i : TagByte0(recs[i].tag) = "M" /\ TagByte1(recs[i].tag) = "E"
                             /\ recs[i].len >= MinRtpLen)

\* the list after its k-th insertion is well formed and holds the descriptors
\* of the first k frame records, each once
WellLinked(h, k) ==
    LET nodes == h.nodes
        walk == AlongNext(nodes, h.list, Len(nodes) + 1)
    IN  /\ Len(nodes) = k
        /\ \A j \in 1 .. k : nodes[j].rec = FrameIndexes(pfile)[j]
        /\ h.list \in 1 .. k /\ h.last \in 1 .. k
        /\ nodes[h.list].prev = 0
        /\ nodes[h.last].next = 0
        /\ \A n \in 1 .. k : nodes[n].next # 0 => nodes[nodes[n].next].prev = n
        /\ \A n \in 1 .. k : n # h.list => nodes[n].prev # 0
        /\ Len(walk) = k
        /\ { walk[j] : j \in 1 .. Len(walk) } = 1 .. k
        /\ walk[k] = h.last

\* C27: after every insertion of pass 2 the index is a well-formed doubly
\* linked list of one descriptor per frame record read so far: the head has
\* no prev, the tracked tail no next, n.next.prev = n, every node but the
\* head has a prev, none is lost or duplicated; and the list followed from
\* its head is the index the parser returns.
C27_ListWellFormed ==
    ppc = "parsed" =>
        /\ \A k \in DOMAIN plinks : WellLinked(plinks[k], k)
        /\ Len(plinks) = Len(pchain)
        /\ plinks # << >> =>
             LET h == plinks[Len(plinks)]
                 walk == AlongNext(h.nodes, h.list, Len(h.nodes) + 1)
             IN  [ j \in 1 .. Len(walk) |-> h.nodes[walk[j]].rec ]
                     = [ j \in 1 .. Len(pchain) |-> pchain[j].rec ]

\* a file was parsed whose second frame became the head of the list and
\* whose third was linked in between the two
C27_Witness ==
    /\ ppc = "parsed"
    /\ Len(plinks) = 3
    /\ plinks[2].list = 2
    /\ plinks[3].nodes[3].prev = 2
    /\ plinks[3].nodes[3].next = 1

====
